---- MODULE Spec2Model ----
(***************************************************************************)
(* Model of the index store of claude-chronicle (package store): the       *)
(* SQLite tables, the store's RWMutex, the indexing pipeline (IndexAll,    *)
(* IndexChanged, indexFile), the watch engine (AddWatch, UpdateWatch,      *)
(* MatchNewMessages, matchAllForWatch, ...) and the query entry points,    *)
(* run by concurrent goroutines.                                           *)
(*                                                                         *)
(* The database is modelled at the level of SQLite in WAL mode as the code *)
(* uses it through database/sql: every statement outside a transaction is  *)
(* atomic and autocommits; a transaction works on a private copy that      *)
(* becomes visible at Commit; a single connection at a time can write, so  *)
(* a write statement issued while another connection's write transaction   *)
(* is open, or from a transaction whose read snapshot is stale, returns    *)
(* SQLITE_BUSY.  Foreign keys are enforced by the connection on which Open *)
(* ran PRAGMA foreign_keys=ON; the other connections database/sql opens    *)
(* when that one is in use run with SQLite's default, foreign keys off.    *)
(***************************************************************************)
EXTENDS Integers, Sequences, FiniteSets, TLC

\* ---------------------------------------------------------------- bounds
\* Highest version (modification time) a log file reaches.
MaxVer == 2
\* Number of store operations the client goroutines start in one behaviour.
MaxOps == 2
\* Number of watch subscriptions ever created.
MaxWatches == 2
\* Number of storage errors (I/O failures of a statement or of a file read)
\* the environment injects in one behaviour.
MaxFaults == 1
\* Largest number of bytes a rune of a text takes.
MaxWidth == 2

\* ------------------------------------------------------------- universe
\* Goroutines that call the store: the UI loop and the background commands.
Clients == {"c1", "c2"}
\* Goroutines started by UpdateWatch's `go s.matchAllForWatch(item)`.
Spawned == {"g1", "g2"}
Procs == Clients \cup Spawned

None == "none"

\* A log file path is <<project directory, base name>>; the ".jsonl" suffix
\* is implicit.  Two directories hold a file of the same base name.
AllFiles == << <<"x", "a">>, <<"x", "b">>, <<"y", "a">> >>
Paths == {AllFiles[i] : i \in 1..Len(AllFiles)}
NoPath == <<"", "">>

\* sessionID := strings.TrimSuffix(filepath.Base(path), ".jsonl")
SessionID(path) == path[2]
Sessions == {SessionID(p) : p \in Paths}

\* Regex patterns the user may type: two that compile, one that does not.
ValidPatterns == {"d", "e"}
Patterns == ValidPatterns \cup {"["}

\* Faulty variant of compiledRegex: every pattern is taken as compiled.
compiledRegexAny(pattern) == pattern

\* regexp.Compile(pattern): nil for a pattern that does not compile.
compiledRegex(pattern) == IF pattern \in ValidPatterns THEN pattern ELSE None

\* item.Compiled.FindStringIndex(text) # nil; message texts are "d", "e", "de".
Matches(compiled, text) ==
    /\ compiled # None
    /\ text \in (IF compiled = "d" THEN {"d", "de"} ELSE {"e", "de"})

\* skipTypes are JSONL message types we don't index.
skipTypes == {"progress", "queue-operation", "file-history-snapshot"}

\* A parsed event (claude.Message): its type and text, its timestamp (an
\* integer ordered as the RFC 3339 strings are, 0 for the empty string), its
\* token counts and the names of its tool calls.
Event(type, text, ts, input, output, tools) ==
    [type |-> type, text |-> text, ts |-> ts, input |-> input,
     output |-> output, tools |-> tools]

\* The append-only log every file grows along; a file at version v holds
\* its first v+1 lines.  The third line carries an earlier timestamp than
\* the second, the fourth carries none.
Log == << Event("progress",  "",   0, 0, 0, <<>>),
          Event("user",      "d",  2, 0, 0, <<>>),
          Event("assistant", "e",  1, 3, 2, <<"Read">>),
          Event("user",      "de", 0, 0, 0, <<>>),
          Event("assistant", "d",  3, 1, 1, <<"Read", "Edit">>) >>

Min(a, b) == IF a < b THEN a ELSE b
Max(S) == CHOOSE x \in S : \A y \in S : y <= x

\* claude.LoadMessages(path) for a file at version v.
LoadMessages(v) == SubSeq(Log, 1, Min(v + 1, Len(Log)))

\* The events of a file that indexFile stores (all but the skipTypes).
StoredEvents(evs) == SelectSeq(evs, LAMBDA e : e.type \notin skipTypes)

\* ---------------------------------------------------------------- texts
\* Where the pipeline cuts a text, only its length matters.  A text is
\* followed as `body` leading bytes of the text extracted from the log line
\* (every rune of which takes `width` bytes) and `dots` bytes of "..."
\* appended behind them; the extracted text itself holds no ".".
Text(body, dots, width) == [body |-> body, dots |-> dots, width |-> width]

\* len(s) and utf8.RuneCountInString(s)
Bytes(t) == t.body + t.dots
Runes(t) == (t.body \div t.width) + t.dots

\* s[:n], for n <= len(s)
Prefix(t, n) ==
    [t EXCEPT !.body = Min(n, t.body),
              !.dots = IF n > t.body THEN Min(n - t.body, t.dots) ELSE 0]

\* s + "..."
Ellipsis(t) == [t EXCEPT !.dots = @ + 3]

\* truncate(s, n): s when it has at most n runes, else its first n runes
\* followed by "...".
truncate(t, n) ==
    IF Runes(t) <= n THEN t
    ELSE LET whole == t.body \div t.width
         IN Ellipsis(Prefix(t, IF n <= whole THEN n * t.width
                                ELSE t.body + (n - whole)))

\* The cut of a tool result's text in extractToolResultText, of a message
\* text in indexFile, and of a result's Text in Search.
ToolResultMax == 200
StoredTextMax == 50000
ResultTextMax == 200

\* parseMessage yields no Message for a record of the given type whose
\* content holds the text t: a user record without text.
Unparsed(type, t) == type = "user" /\ Bytes(t) = 0

\* The Text of the Message parseMessage yields otherwise.
ParsedText(type, t) ==
    IF type = "tool-result" THEN truncate(t, ToolResultMax) ELSE t

\* The text indexFile stores for a Message.
IndexedText(t) == IF Bytes(t) > StoredTextMax THEN Prefix(t, StoredTextMax) ELSE t

\* Faulty variant of ResultText: the row's text is returned as stored.
ResultTextUncut(t) == t

\* The Text of a SearchResult for a row holding t.
ResultText(t) ==
    IF Bytes(t) > ResultTextMax THEN Ellipsis(Prefix(t, ResultTextMax)) ELSE t

\* ------------------------------------------------------------- database
\* seq counts the commits that changed the content (the WAL's frames).
\* fts is the content of the full-text index messages_fts.
EmptyDB == [files |-> {}, sessions |-> {}, messages |-> {}, fts |-> {},
            watchlist |-> {}, matches |-> {}, seq |-> 0]

\* INTEGER PRIMARY KEY: a new row gets the largest rowid in the table + 1.
NextId(rows) == IF rows = {} THEN 1 ELSE Max({r.id : r \in rows}) + 1

\* The entry of the full-text index for a message row: its rowid, text and
\* tool-call list.
FtsEntry(m) == [rowid |-> m.id, text |-> m.text, tool_calls |-> m.tool_calls]

\* Trigger messages_ai, AFTER INSERT ON messages: the entry of the new row
\* is added to the index within the INSERT statement.
messages_ai(d, new) == [d EXCEPT !.fts = @ \cup {FtsEntry(new)}]

\* Faulty variant of messages_ad: the trigger is missing.
messages_adMissing(d, old) == d

\* Trigger messages_ad, AFTER DELETE ON messages, for the rows `old` a
\* DELETE statement removes: the 'delete' command takes the entry of each
\* out of the index.
messages_ad(d, old) ==
    [d EXCEPT !.fts = {e \in @ : \A m \in old : e # FtsEntry(m)}]

\* INSERT INTO messages_fts(messages_fts) VALUES('rebuild'): the index is
\* built anew from the content table.
FtsRebuild(d) == [d EXCEPT !.fts = {FtsEntry(m) : m \in d.messages}]

\* DELETE FROM messages WHERE session_id = sid; on a connection that
\* enforces foreign keys (fk) watchlist_matches rows go with their message
\* (message_id ... ON DELETE CASCADE).
DeleteMessages(fk, d, sid) ==
    LET old  == {x \in d.messages : x.sid = sid}
        gone == {m.id : m \in old}
    IN messages_ad([d EXCEPT !.messages = {m \in @ : m.sid # sid},
                             !.matches  = {w \in @ : fk => w.mid \notin gone}],
                   old)

\* DELETE FROM sessions WHERE session_id = sid
DeleteSessions(d, sid) == [d EXCEPT !.sessions = {s \in @ : s.sid # sid}]

\* DELETE FROM files WHERE id = fid; with foreign keys enforced the session
\* row goes with its file (file_id ... ON DELETE CASCADE).
DeleteFile(fk, d, fid) ==
    [d EXCEPT !.files    = {f \in @ : f.id # fid},
              !.sessions = {s \in @ : fk => s.fid # fid}]

\* INSERT INTO files: fails on a second row for the same path (path UNIQUE).
CanInsertFile(d, path) == \A f \in d.files : f.path # path
InsertFile(d, path, mtime, size) ==
    [d EXCEPT !.files = @ \cup {[id |-> NextId(d.files), path |-> path,
                                 project |-> path[1], sid |-> SessionID(path),
                                 mtime |-> mtime, size |-> size]}]

\* The message loop of indexFile: one INSERT per event that is not of a
\* skipped type; an INSERT that fails (i \in fails) is passed over.  The
\* session statistics are aggregated over the events whose INSERT succeeded:
\* createdAt is the first non-empty timestamp met, modifiedAt the last.
\* Every row keeps, beside its columns, the file it was read from (src):
\* the table has no such column, it tells the rows of one file from those
\* of another with the same session identifier.
RECURSIVE InsertMessages(_, _, _, _, _)
InsertMessages(d, path, evs, i, fails) ==
    IF i > Len(evs)
    THEN [db |-> d, ids |-> {}, msgCount |-> 0, totalIn |-> 0, totalOut |-> 0,
          toolCount |-> 0, createdAt |-> 0, modifiedAt |-> 0]
    ELSE IF evs[i].type \in skipTypes \/ i \in fails
         THEN InsertMessages(d, path, evs, i + 1, fails)
         ELSE LET id   == NextId(d.messages)
                  msg  == evs[i]
                  new  == [id |-> id, sid |-> SessionID(path), src |-> path,
                           type |-> msg.type,
                           text |-> msg.text, timestamp |-> msg.ts,
                           tool_calls |-> msg.tools,
                           input_tokens |-> msg.input,
                           output_tokens |-> msg.output]
                  d1   == messages_ai([d EXCEPT !.messages = @ \cup {new}],
                                      new)
                  rest == InsertMessages(d1, path, evs, i + 1, fails)
              IN [db |-> rest.db, ids |-> rest.ids \cup {id},
                  msgCount   |-> rest.msgCount + 1,
                  totalIn    |-> rest.totalIn + msg.input,
                  totalOut   |-> rest.totalOut + msg.output,
                  toolCount  |-> rest.toolCount + Len(msg.tools),
                  createdAt  |-> IF msg.ts # 0 THEN msg.ts ELSE rest.createdAt,
                  modifiedAt |-> IF rest.modifiedAt # 0 THEN rest.modifiedAt
                                 ELSE msg.ts]

\* INSERT INTO sessions: fails on a second row for the same session_id
\* (session_id UNIQUE) and, with foreign keys enforced, for a file_id that
\* is no files row.
CanInsertSession(fk, d, sid, fid) ==
    /\ \A s \in d.sessions : s.sid # sid
    /\ fk => \E f \in d.files : f.id = fid

\* The row an INSERT INTO sessions adds, with the statistics the message
\* loop aggregated.
InsertSession(d, sid, fid, project, stats) ==
    [d EXCEPT !.sessions = @ \cup
        {[id |-> NextId(d.sessions), sid |-> sid, fid |-> fid,
          project |-> project,
          created_at |-> stats.createdAt, modified_at |-> stats.modifiedAt,
          message_count |-> stats.msgCount,
          total_input_tokens |-> stats.totalIn,
          total_output_tokens |-> stats.totalOut,
          tool_count |-> stats.toolCount]}]

\* INSERT INTO watchlist_matches (..., seen) VALUES (..., 0): with foreign
\* keys enforced it fails when the subscription or the message is no row.
CanInsertMatch(fk, d, wid, mid) ==
    fk => /\ \E w \in d.watchlist : w.id = wid
          /\ \E m \in d.messages : m.id = mid

\* Faulty variant of InsertMatch: the row is stored as already seen.
InsertMatchSeen(fk, d, wid, mid, sid) ==
    IF CanInsertMatch(fk, d, wid, mid)
    THEN [d EXCEPT !.matches = @ \cup {[id |-> NextId(d.matches), wid |-> wid,
                                        mid |-> mid, sid |-> sid,
                                        seen |-> TRUE]}]
    ELSE d

\* The row an INSERT INTO watchlist_matches adds, if it can.
InsertMatch(fk, d, wid, mid, sid) ==
    IF CanInsertMatch(fk, d, wid, mid)
    THEN [d EXCEPT !.matches = @ \cup {[id |-> NextId(d.matches), wid |-> wid,
                                        mid |-> mid, sid |-> sid,
                                        seen |-> FALSE]}]
    ELSE d

\* The rows of a result set in rowid order.
RECURSIVE ById(_)
ById(rows) ==
    IF rows = {} THEN <<>>
    ELSE LET r == CHOOSE x \in rows : \A y \in rows : x.id <= y.id
         IN <<r>> \o ById(rows \ {r})

\* One INSERT INTO watchlist_matches per row of `rows` (in order) whose text
\* the compiled pattern matches.
RECURSIVE InsertMatches(_, _, _, _)
InsertMatches(fk, d, item, rows) ==
    IF rows = <<>> THEN d
    ELSE LET m == Head(rows)
         IN IF Matches(compiledRegex(item.pattern), m.text)
            THEN InsertMatches(fk, InsertMatch(fk, d, item.id, m.id, m.sid),
                               item, Tail(rows))
            ELSE InsertMatches(fk, d, item, Tail(rows))

\* The number of rows of `rows` the pattern matches (the statements issued).
MatchingRows(item, rows) ==
    {m \in rows : Matches(compiledRegex(item.pattern), m.text)}

\* COUNT(*) FROM watchlist_matches WHERE watchlist_id = wid AND seen = 0
UnseenCount(d, wid) == Cardinality({w \in d.matches : w.wid = wid /\ ~w.seen})

\* SELECT id FROM files WHERE path = ? (0: no row)
OldFileID(d, path) ==
    IF \E f \in d.files : f.path = path
    THEN (CHOOSE f \in d.files : f.path = path).id
    ELSE 0

\* The inserts of indexFile on the transaction's copy d: the file row, one
\* message row per event, the session row.  fileOk is FALSE when the INSERT
\* of the file row fails, sessionOk when that of the session row fails;
\* indexFile returns the error in both cases.
FileInserts(fk, d, path, mtime, events, fault) ==
    LET sid == SessionID(path)
        fid == NextId(d.files)
        d1  == InsertFile(d, path, mtime, Len(events))
        r   == InsertMessages(d1, path, events, 1,
                              IF fault > 0 THEN {fault} ELSE {})
    IN [fileOk    |-> CanInsertFile(d, path),
        sessionOk |-> fault # -1 /\ CanInsertSession(fk, r.db, sid, fid),
        ids       |-> r.ids,
        db        |-> InsertSession(r.db, sid, fid, path[1], r)]

\* ------------------------------------------------------------------ state
VARIABLES
    fs,       \* version (modification time) of every log file on disk
    db,       \* the committed content of the SQLite database
    dbLock,   \* the goroutine whose transaction holds SQLite's write lock
    muW,      \* Store.mu: the goroutine holding the writer lock
    muR,      \* Store.mu: the goroutines holding the read lock
    pc,       \* where every goroutine is in the operation it runs
    loc,      \* the local variables of the operation every goroutine runs
    ret,      \* the operation that returned last and what it returned
    last,     \* the indexFile call that returned last and what it did
    ops,      \* operations started so far
    faults,   \* storage errors still to be injected
    calc,     \* a record followed from the log line to the search result
    pool      \* the idle connections of the sql.DB, the last returned last

storeVars == <<fs, db, dbLock, muW, muR, pc, loc, ret, last, ops, faults, pool>>
vars == <<fs, db, dbLock, muW, muR, pc, loc, ret, last, ops, faults, calc, pool>>

NoItem == [id |-> 0, name |-> "", pattern |-> None, enabled |-> FALSE]
NoArg  == [id |-> 0, name |-> "", pattern |-> "", sid |-> "", ids |-> {}]
Idle   == [op |-> None, arg |-> NoArg, files |-> <<>>, path |-> NoPath,
           events |-> <<>>, mtime |-> 0, tx |-> EmptyDB, ids |-> {},
           newIds |-> {}, items |-> <<>>, total |-> 0, changed |-> 0,
           item |-> NoItem, rows |-> {}, failed |-> FALSE, old |-> 0,
           abort |-> FALSE, fk |-> FALSE, rfk |-> FALSE]
NoRet  == [proc |-> None, op |-> None, arg |-> NoArg, err |-> None, val |-> 0, rows |-> {}]
NoLast == [proc |-> None, path |-> NoPath, ok |-> FALSE, clean |-> FALSE, events |-> <<>>,
           reindex |-> FALSE, ids |-> {}]

\* No record is being followed.
NoCalc == [stage |-> None, type |-> None, extracted |-> Text(0, 0, 1),
           val |-> Text(0, 0, 1)]

\* database/sql keeps at most this many idle connections (its default; the
\* store sets no other).
MaxIdleConns == 2

\* A connection is followed as whether it enforces foreign keys.  After Open
\* the pool holds the one connection that ran PRAGMA foreign_keys=ON.
OpenPool == <<TRUE>>

\* The connection a statement, a Query or a Begin gets: the idle connection
\* returned last, or a new one when none is idle, on which no PRAGMA ran.
Top(pl) == IF pl = <<>> THEN FALSE ELSE pl[Len(pl)]
Rest(pl) == IF pl = <<>> THEN <<>> ELSE SubSeq(pl, 1, Len(pl) - 1)

\* A connection is returned to the pool, or closed when the pool is full.
Release(pl, fk) == IF Len(pl) < MaxIdleConns THEN Append(pl, fk) ELSE pl

\* The pool after a statement ran outside a transaction and its connection
\* was returned.
Touch(pl) == Release(Rest(pl), Top(pl))

\* The database file outlives the process (Open creates the schema only
\* when the file has none): the store starts empty, or as an earlier run
\* left it, here after an IndexAll of the files at version 1 (the second
\* file named "a" is refused, its session_id being taken), and after an
\* AddWatch("n", "d") with its backfill.
DeleteOld(fk, d, path) ==
    LET sid == SessionID(path)
    IN DeleteFile(fk, DeleteSessions(DeleteMessages(fk, d, sid), sid),
                  OldFileID(d, path))

Indexed(d, path, v) ==
    LET d0 == IF OldFileID(d, path) # 0 THEN DeleteOld(TRUE, d, path) ELSE d
        r  == FileInserts(TRUE, d0, path, v, LoadMessages(v), 0)
    IN IF r.fileOk /\ r.sessionOk THEN r.db ELSE d

RECURSIVE IndexedAll(_, _)
IndexedAll(d, files) ==
    IF files = <<>> THEN d
    ELSE IndexedAll(Indexed(d, Head(files), 1), Tail(files))

FirstWatch == [id |-> 1, name |-> "n", pattern |-> "d", enabled |-> TRUE]

IndexedDB == IndexedAll(EmptyDB, AllFiles)
WatchedDB ==
    InsertMatches(TRUE, [IndexedDB EXCEPT !.watchlist = {FirstWatch}], FirstWatch,
                  ById(IndexedDB.messages))
InitialDBs == {EmptyDB, IndexedDB, WatchedDB}

\* The store an earlier run left after a ToggleWatch(1) that disabled the
\* subscription.
PausedDB ==
    [WatchedDB EXCEPT !.watchlist = {[FirstWatch EXCEPT !.enabled = FALSE]}]

Init ==
    /\ fs = [p \in Paths |-> 1]
    /\ db \in InitialDBs
    /\ dbLock = None
    /\ muW = None
    /\ muR = {}
    /\ pc = [p \in Procs |-> "idle"]
    /\ loc = [p \in Procs |-> Idle]
    /\ ret = NoRet
    /\ last = NoLast
    /\ ops = 0
    /\ faults = MaxFaults
    /\ calc = NoCalc
    /\ pool = OpenPool

\* A write statement of goroutine p can take SQLite's write lock: no other
\* connection writes, and the snapshot p's transaction reads from (tx) is
\* still the committed state, no commit having followed it.  Outside a
\* transaction tx is not consulted.
HoldsDb(p) == dbLock = p
DbFree == dbLock = None
CanWrite(p) == HoldsDb(p) \/ (DbFree /\ loc[p].tx = db)

\* The committed state once the content d is written: a commit that changes
\* nothing appends no frame.
Commit(d) == IF d = db THEN db ELSE [d EXCEPT !.seq = db.seq + 1]

\* The environment may make a statement fail while it has faults left.
FaultChoices == IF faults > 0 THEN {FALSE, TRUE} ELSE {FALSE}

\* The files a running Claude session appends to.
LiveFiles == {<<"x", "a">>}

\* The Claude process appends to a log file.
AppendLog(path) ==
    /\ fs[path] < MaxVer
    /\ fs' = [fs EXCEPT ![path] = @ + 1]
    /\ UNCHANGED <<db, dbLock, muW, muR, pc, loc, ret, last, ops, faults, calc, pool>>

\* The operation of goroutine p returns.
Return(p, err, val) ==
    /\ ret' = [proc |-> p, op |-> loc[p].op, arg |-> loc[p].arg,
                                  err |-> err, val |-> val, rows |-> {}]
    /\ loc' = [loc EXCEPT ![p] = Idle]
    /\ pc' = [pc EXCEPT ![p] = "idle"]

\* ---------------------------------------------------------------- indexFile
\* The loop of the caller that indexFile returns to.
Loop(p) == IF loc[p].op = "IndexAll" THEN "ia_next" ELSE "ic_next"

\* Faulty variant of Collected: the IDs are kept whatever indexFile returned.
CollectedAlways(ids, newIds, ok) == ids \cup newIds

\* The caller's list of new message IDs after an indexFile call: on an error
\* the loop continues, otherwise the IDs returned are appended.
Collected(ids, newIds, ok) == IF ok THEN ids \cup newIds ELSE ids

\* indexFile returns to its caller: with an error and the transaction rolled
\* back (defer tx.Rollback()), or with the IDs of the inserted messages;
\* either way the transaction's connection goes back to the pool.
IxReturn(p, ok, clean) ==
    /\ last' =
                  [proc |-> p, path |-> loc[p].path, ok |-> ok, clean |-> clean,
                   events |-> loc[p].events, reindex |-> loc[p].old # 0,
                   ids |-> IF ok THEN loc[p].newIds ELSE {}]
    /\ loc' = [loc EXCEPT ![p] =
                  [@ EXCEPT !.path = NoPath, !.events = <<>>, !.mtime = 0,
                            !.tx = EmptyDB, !.newIds = {}, !.failed = FALSE,
                            !.abort = FALSE, !.fk = FALSE,
                            !.old = 0,
                            !.ids = Collected(@, loc[p].newIds, ok),
                            !.changed = IF ok /\ loc[p].op = "IndexChanged"
                                        THEN @ + 1 ELSE @]]
    /\ pc' = [pc EXCEPT ![p] = Loop(p)]
    /\ pool' = Release(pool, loc[p].fk)

\* os.Stat, claude.LoadMessages, s.db.Begin and the SELECT of the old file
\* row, for the next file of the caller's list.  A file that cannot be read
\* makes indexFile return the error before it opens a transaction.  pl is
\* the pool as the caller's statements left it; Begin takes a connection
\* out of it.
IxBegin(p, path, rest, readFails, pl) ==
    IF readFails
    THEN /\ last' =
                       [proc |-> p, path |-> path, ok |-> FALSE, clean |-> FALSE,
                        events |-> <<>>, reindex |-> FALSE, ids |-> {}]
         /\ loc' = [loc EXCEPT ![p] = [@ EXCEPT !.files = rest]]
         /\ faults' = faults - 1
         /\ pool' = pl
         /\ UNCHANGED pc
    ELSE /\ loc' = [loc EXCEPT ![p] =
                      [@ EXCEPT !.files = rest, !.path = path,
                                !.events = LoadMessages(fs[path]),
                                !.mtime = fs[path], !.tx = db,
                                !.fk = Top(pl),
                                !.old = OldFileID(db, path)]]
         /\ pool' = Rest(pl)
         /\ pc' = [pc EXCEPT ![p] = IF OldFileID(db, path) # 0
                                    THEN "ix_delmsgs" ELSE "ix_insert"]
         /\ UNCHANGED <<last, faults>>

\* What the environment can make fail among the inserts of one indexFile:
\* 0 nothing, -1 the INSERT of the file or of the session row, i > 0 the
\* INSERT of the message of event i.
InsertFaults(p) ==
    IF faults > 0
    THEN {0, -1} \cup {i \in 1..Len(loc[p].events) :
                          loc[p].events[i].type \notin skipTypes}
    ELSE {0}

\* The inserts of indexFile once its transaction holds the write lock (the
\* old rows deleted or not).  A refused file row ends the call at once; a
\* refused session row ends it after the message rows were inserted, the
\* write lock held until the rollback.
IxInserts(p, d, fault) ==
    LET r == FileInserts(loc[p].fk, d, loc[p].path, loc[p].mtime,
                         loc[p].events, fault)
    IN /\ faults' = IF fault = 0 THEN faults ELSE faults - 1
       /\ IF ~r.fileOk
          THEN /\ IxReturn(p, FALSE, FALSE)
               /\ dbLock' = None
          ELSE /\ loc' = [loc EXCEPT ![p] =
                            [@ EXCEPT !.tx = r.db, !.newIds = r.ids,
                                      !.abort = ~r.sessionOk,
                                      !.failed = @ \/ fault > 0]]
               /\ pc' = [pc EXCEPT ![p] = "ix_commit"]
               /\ dbLock' = p
               /\ UNCHANGED <<last, pool>>

\* tx.Exec("DELETE FROM messages WHERE session_id = ?"): its error is
\* dropped.  When it takes the write lock, the statements up to Commit
\* follow without interference and are taken with it.
IxDelMsgs(p) ==
    /\ pc[p] = "ix_delmsgs"
    /\ IF CanWrite(p)
       THEN \E fault \in InsertFaults(p) :
              IxInserts(p, DeleteOld(loc[p].fk, loc[p].tx, loc[p].path), fault)
       ELSE /\ pc' = [pc EXCEPT ![p] = "ix_delsess"]
            /\ loc' = [loc EXCEPT ![p] = [@ EXCEPT !.failed = TRUE]]
            /\ UNCHANGED <<dbLock, last, faults, pool>>
    /\ UNCHANGED <<fs, db, muW, muR, ret, ops, calc>>

\* tx.Exec("DELETE FROM sessions WHERE session_id = ?") after the DELETE of
\* the messages was refused.
IxDelSess(p) ==
    /\ pc[p] = "ix_delsess"
    /\ IF CanWrite(p)
       THEN \E fault \in InsertFaults(p) :
              IxInserts(p, DeleteFile(loc[p].fk, DeleteSessions(loc[p].tx,
                           SessionID(loc[p].path)), loc[p].old), fault)
       ELSE /\ pc' = [pc EXCEPT ![p] = "ix_delfile"]
            /\ UNCHANGED <<loc, dbLock, last, faults, pool>>
    /\ UNCHANGED <<fs, db, muW, muR, ret, ops, calc>>

\* tx.Exec("DELETE FROM files WHERE id = ?") after the two DELETEs before
\* it were refused.
IxDelFile(p) ==
    /\ pc[p] = "ix_delfile"
    /\ IF CanWrite(p)
       THEN \E fault \in InsertFaults(p) :
              IxInserts(p, DeleteFile(loc[p].fk, loc[p].tx, loc[p].old), fault)
       ELSE /\ pc' = [pc EXCEPT ![p] = "ix_insert"]
            /\ UNCHANGED <<loc, dbLock, last, faults, pool>>
    /\ UNCHANGED <<fs, db, muW, muR, ret, ops, calc>>

\* The INSERT of the file row as the first statement that can write: of a
\* file not indexed before, or after all three DELETEs were refused.
IxInsert(p) ==
    /\ pc[p] = "ix_insert"
    /\ IF CanWrite(p)
       THEN \E fault \in InsertFaults(p) : IxInserts(p, loc[p].tx, fault)
       ELSE /\ IxReturn(p, FALSE, FALSE)
            /\ UNCHANGED <<dbLock, faults>>
    /\ UNCHANGED <<fs, db, muW, muR, ret, ops, calc>>

\* The end of indexFile's transaction: the INSERT of the session row was
\* refused and the deferred Rollback runs, or tx.Commit() makes the file's
\* new rows replace the committed ones at once; a Commit that fails rolls
\* the transaction back.
IxCommit(p) ==
    /\ pc[p] = "ix_commit"
    /\ \E fail \in FaultChoices :
         IF loc[p].abort
         THEN /\ ~fail
              /\ IxReturn(p, FALSE, FALSE)
              /\ UNCHANGED <<db, faults>>
         ELSE IF fail
         THEN /\ IxReturn(p, FALSE, FALSE)
              /\ faults' = faults - 1
              /\ UNCHANGED db
         ELSE /\ IxReturn(p, TRUE, ~loc[p].failed)
              /\ db' = Commit(loc[p].tx)
              /\ UNCHANGED faults
    /\ dbLock' = None
    /\ UNCHANGED <<fs, muW, muR, ret, ops, calc>>

\* ----------------------------------------------------------------- IndexAll
\* IndexAll up to its loop: DiscoverProjects and collectJSONLFiles.
IndexAll(p) ==
    /\ pc[p] = "idle" /\ ops < MaxOps
    /\ ops' = ops + 1
    /\ loc' = [loc EXCEPT ![p] = [Idle EXCEPT !.op = "IndexAll",
                                              !.files = AllFiles]]
    /\ pc' = [pc EXCEPT ![p] = "ia_next"]
    /\ UNCHANGED <<fs, db, dbLock, muW, muR, ret, last, faults, calc, pool>>

\* One turn of IndexAll's loop, up to the first write of indexFile; after
\* the last file, MatchNewMessages over the collected IDs if there are any.
IaNext(p) ==
    /\ pc[p] = "ia_next"
    /\ IF loc[p].files # <<>>
       THEN /\ \E readFails \in FaultChoices :
                 IxBegin(p, Head(loc[p].files), Tail(loc[p].files), readFails,
                         pool)
            /\ UNCHANGED ret
       ELSE IF loc[p].ids # {}
       THEN /\ pc' = [pc EXCEPT ![p] = "mnm_list"]
            /\ UNCHANGED <<loc, ret, last, faults, pool>>
       ELSE /\ Return(p, None, 0)
            /\ UNCHANGED <<last, faults, pool>>
    /\ UNCHANGED <<fs, db, dbLock, muW, muR, ops, calc>>

\* --------------------------------------------------------- MatchNewMessages
\* What the operation that ran MatchNewMessages returns after it.
MnmReturn(p, total) ==
    IF loc[p].op = "MatchNewMessages" THEN Return(p, None, total)
    ELSE IF loc[p].op = "IndexChanged" THEN Return(p, None, loc[p].changed)
    ELSE Return(p, None, 0)

\* The watch items MatchNewMessages goes on to evaluate: those of the list
\* that are enabled and have a compiled pattern.
EnabledItems(d) ==
    SelectSeq(ById(d.watchlist),
              LAMBDA w : w.enabled /\ compiledRegex(w.pattern) # None)

\* s.ListWatches() inside MatchNewMessages: the read lock is taken for the
\* query and released before the matching starts.
MnmList(p) ==
    /\ pc[p] = "mnm_list"
    /\ muW = None
    /\ IF EnabledItems(db) = <<>>
       THEN MnmReturn(p, 0)
       ELSE /\ loc' = [loc EXCEPT ![p] = [@ EXCEPT !.items = EnabledItems(db),
                                                   !.total = 0]]
            /\ pc' = [pc EXCEPT ![p] = "mnm_item"]
            /\ UNCHANGED ret
    /\ pool' = Touch(pool)
    /\ UNCHANGED <<fs, db, dbLock, muW, muR, last, ops, faults, calc>>

\* One turn of MatchNewMessages' loop over the items: the SELECT of the
\* messages with an ID in messageIDs and one autocommitted INSERT per
\* matching row.  The INSERT's error is dropped and total is incremented
\* all the same; no lock of the store is held.  The rows of the SELECT keep
\* their connection until rows.Close(), so every INSERT runs on another.
MnmItem(p) ==
    /\ pc[p] = "mnm_item"
    /\ LET item  == Head(loc[p].items)
           rows  == {m \in db.messages : m.id \in loc[p].ids}
           total == loc[p].total + Cardinality(MatchingRows(item, rows))
           left  == Rest(pool)
       IN /\ db' = Commit(IF DbFree
                          THEN InsertMatches(Top(left), db, item, ById(rows))
                          ELSE db)
          /\ pool' = Release(IF MatchingRows(item, rows) = {} THEN left
                             ELSE Touch(left), Top(pool))
          /\ IF Tail(loc[p].items) = <<>>
             THEN MnmReturn(p, total)
             ELSE /\ loc' = [loc EXCEPT ![p] = [@ EXCEPT !.items = Tail(@),
                                                         !.total = total]]
                  /\ UNCHANGED <<pc, ret>>
    /\ UNCHANGED <<fs, dbLock, muW, muR, last, ops, faults, calc>>

\* MatchNewMessages called on its own, with no IDs or with the IDs of the
\* messages stored for one session.
MatchNewMessages(p, sid) ==
    /\ pc[p] = "idle" /\ ops < MaxOps
    /\ ops' = ops + 1
    /\ LET ids == {m.id : m \in {x \in db.messages : x.sid = sid}}
           arg == [NoArg EXCEPT !.sid = sid, !.ids = ids]
       IN IF ids = {}
          THEN /\ ret' = [proc |-> p, op |-> "MatchNewMessages",
                                             arg |-> arg, err |-> None, val |-> 0,
                                             rows |-> {}]
               /\ UNCHANGED <<pc, loc>>
          ELSE /\ loc' = [loc EXCEPT ![p] = [Idle EXCEPT !.op = "MatchNewMessages",
                                                         !.arg = arg, !.ids = ids]]
               /\ pc' = [pc EXCEPT ![p] = "mnm_list"]
               /\ UNCHANGED ret
    /\ UNCHANGED <<fs, db, dbLock, muW, muR, last, faults, calc, pool>>

\* ------------------------------------------------------------- IndexChanged
\* IndexChanged up to its loop: s.mu.Lock() and the discovery.
IndexChanged(p) ==
    /\ pc[p] = "idle" /\ ops < MaxOps
    /\ muW = None /\ muR = {}
    /\ muW' = p
    /\ ops' = ops + 1
    /\ loc' = [loc EXCEPT ![p] = [Idle EXCEPT !.op = "IndexChanged",
                                              !.files = AllFiles]]
    /\ pc' = [pc EXCEPT ![p] = "ic_next"]
    /\ UNCHANGED <<fs, db, dbLock, muR, ret, last, faults, calc, pool>>

\* Faulty variant of Unchanged: every file is taken as changed.
UnchangedNever(d, path) == FALSE

\* The file is indexed with the modification time and size it has now.
Unchanged(d, path) ==
    \E f \in d.files : /\ f.path = path
                       /\ f.mtime = fs[path]
                       /\ f.size = Len(LoadMessages(fs[path]))

\* Faulty variant of AfterLoop: the lock is kept while the matching runs.
AfterLoopLocked(p) == p

\* The holder of Store.mu once IndexChanged's loop has ended: s.mu.Unlock()
\* comes before MatchNewMessages, which takes the read lock in ListWatches.
AfterLoop(p) == None

\* One turn of IndexChanged's loop: a file whose stored mtime and size are
\* the current ones is passed over, any other is indexed.  After the last
\* file the lock is released and MatchNewMessages runs over the new IDs.
IcNext(p) ==
    /\ pc[p] = "ic_next"
    /\ IF loc[p].files # <<>>
       THEN /\ IF Unchanged(db, Head(loc[p].files))
               THEN /\ loc' = [loc EXCEPT ![p] = [@ EXCEPT !.files = Tail(@)]]
                    /\ pool' = Touch(pool)
                    /\ UNCHANGED <<pc, last, faults>>
               ELSE \E readFails \in FaultChoices :
                      IxBegin(p, Head(loc[p].files), Tail(loc[p].files), readFails,
                              Touch(pool))
            /\ UNCHANGED <<ret, muW>>
       ELSE /\ muW' = AfterLoop(p)
            /\ IF loc[p].ids # {}
               THEN /\ pc' = [pc EXCEPT ![p] = "mnm_list"]
                    /\ UNCHANGED <<loc, ret>>
               ELSE Return(p, None, loc[p].changed)
            /\ UNCHANGED <<last, faults, pool>>
    /\ UNCHANGED <<fs, db, dbLock, muR, ops, calc>>

\* A single-statement operation returns at once.
Answer(p, op, arg, err, val) ==
    /\ ret' = [proc |-> p, op |-> op, arg |-> arg, err |-> err,
                                  val |-> val, rows |-> {}]
    /\ UNCHANGED <<pc, loc>>

\* --------------------------------------------------------- matchAllForWatch
\* matchAllForWatch up to its loop: s.mu.Lock(), the SELECT of all
\* messages, whose rows the loop then reads, and s.db.Begin(), which gets
\* another connection than the one the open rows keep.
BfStart(p) ==
    /\ pc[p] = "bf_start"
    /\ muW = None /\ muR = {}
    /\ muW' = p
    /\ loc' = [loc EXCEPT ![p] = [@ EXCEPT !.rows = db.messages,
                                           !.rfk = Top(pool),
                                           !.fk = Top(Rest(pool))]]
    /\ pool' = Rest(Rest(pool))
    /\ pc' = [pc EXCEPT ![p] = "bf_insert"]
    /\ UNCHANGED <<fs, db, dbLock, muR, ret, last, ops, faults, calc>>

\* matchAllForWatch returns (to AddWatch, or ending the spawned goroutine):
\* the transaction's connection went back to the pool at Commit, that of
\* the rows follows at the deferred rows.Close().
BfReturn(p) ==
    /\ pool' = Release(Release(pool, loc[p].fk), loc[p].rfk)
    /\ IF p \in Spawned
       THEN /\ loc' = [loc EXCEPT ![p] = Idle]
            /\ pc' = [pc EXCEPT ![p] = "idle"]
            /\ UNCHANGED ret
       ELSE Return(p, None, loc[p].item.id)

\* The loop of matchAllForWatch: stmt.Exec for every row read that the
\* pattern matches, inside one transaction (a batch has at most 1000
\* inserts); the error of stmt.Exec is dropped.  With no row to insert, or
\* with every INSERT refused, Commit has nothing to write and the function
\* returns, releasing the lock.
BfInsert(p) ==
    /\ pc[p] = "bf_insert"
    /\ IF DbFree /\ MatchingRows(loc[p].item, loc[p].rows) # {}
       THEN /\ loc' = [loc EXCEPT ![p] =
                         [@ EXCEPT !.tx = InsertMatches(loc[p].fk, db,
                                                        loc[p].item,
                                                        ById(loc[p].rows))]]
            /\ pc' = [pc EXCEPT ![p] = "bf_commit"]
            /\ dbLock' = p
            /\ UNCHANGED <<ret, muW, pool>>
       ELSE /\ BfReturn(p)
            /\ muW' = None
            /\ UNCHANGED dbLock
    /\ UNCHANGED <<fs, db, muR, last, ops, faults, calc>>

\* tx.Commit() at the end of matchAllForWatch, then the deferred Unlock.
BfCommit(p) ==
    /\ pc[p] = "bf_commit"
    /\ db' = Commit(loc[p].tx)
    /\ dbLock' = None
    /\ muW' = None
    /\ BfReturn(p)
    /\ UNCHANGED <<fs, muR, last, ops, faults, calc>>

\* ------------------------------------------------------------ watch engine
\* AddWatch up to the backfill: the pattern is compiled, the subscription
\* inserted (enabled), and matchAllForWatch is called.
AddWatch(p, name, pattern) ==
    /\ pc[p] = "idle" /\ ops < MaxOps
    /\ Cardinality(db.watchlist) < MaxWatches
    /\ ops' = ops + 1
    /\ LET arg  == [NoArg EXCEPT !.name = name, !.pattern = pattern]
           item == [id |-> NextId(db.watchlist), name |-> name,
                    pattern |-> pattern, enabled |-> TRUE]
       IN IF compiledRegex(pattern) = None
          THEN /\ Answer(p, "AddWatch", arg, "invalid regex", 0)
               /\ UNCHANGED <<db, pool>>
          ELSE IF ~DbFree
          THEN /\ Answer(p, "AddWatch", arg, "busy", 0)
               /\ pool' = Touch(pool)
               /\ UNCHANGED db
          ELSE /\ db' = Commit([db EXCEPT !.watchlist = @ \cup {item}])
               /\ pool' = Touch(pool)
               /\ loc' = [loc EXCEPT ![p] = [Idle EXCEPT !.op = "AddWatch",
                                                         !.arg = arg,
                                                         !.item = item]]
               /\ pc' = [pc EXCEPT ![p] = "bf_start"]
               /\ UNCHANGED ret
    /\ UNCHANGED <<fs, dbLock, muW, muR, last, faults, calc>>

\* DELETE FROM watchlist WHERE id = ?; with foreign keys enforced the
\* matches go with their subscription (watchlist_id ... ON DELETE CASCADE).
DeleteWatch(fk, d, id) ==
    [d EXCEPT !.watchlist = {w \in @ : w.id # id},
              !.matches = {m \in @ : fk => m.wid # id}]

\* RemoveWatch deletes a watchlist item and its matches.
RemoveWatch(p, id) ==
    /\ pc[p] = "idle" /\ ops < MaxOps
    /\ ops' = ops + 1
    /\ pool' = Touch(pool)
    /\ IF DbFree
       THEN /\ db' = Commit(DeleteWatch(Top(pool), db, id))
            /\ Answer(p, "RemoveWatch", [NoArg EXCEPT !.id = id], None, 0)
       ELSE /\ Answer(p, "RemoveWatch", [NoArg EXCEPT !.id = id], "busy", 0)
            /\ UNCHANGED db
    /\ UNCHANGED <<fs, dbLock, muW, muR, last, faults, calc>>

\* UPDATE watchlist SET enabled = NOT enabled WHERE id = ?
ToggleWatch(p, id) ==
    /\ pc[p] = "idle" /\ ops < MaxOps
    /\ ops' = ops + 1
    /\ IF DbFree
       THEN /\ db' = Commit([db EXCEPT !.watchlist =
                        {IF w.id = id THEN [w EXCEPT !.enabled = ~@] ELSE w : w \in @}])
            /\ Answer(p, "ToggleWatch", [NoArg EXCEPT !.id = id], None, 0)
       ELSE /\ Answer(p, "ToggleWatch", [NoArg EXCEPT !.id = id], "busy", 0)
            /\ UNCHANGED db
    /\ pool' = Touch(pool)
    /\ UNCHANGED <<fs, dbLock, muW, muR, last, faults, calc>>

\* UpdateWatch up to its second statement: the pattern is compiled and the
\* subscription row updated.
UpdateWatch(p, id, name, pattern) ==
    /\ pc[p] = "idle" /\ ops < MaxOps
    /\ ops' = ops + 1
    /\ LET arg == [NoArg EXCEPT !.id = id, !.name = name, !.pattern = pattern]
       IN IF compiledRegex(pattern) = None
          THEN /\ Answer(p, "UpdateWatch", arg, "invalid regex", 0)
               /\ UNCHANGED <<db, pool>>
          ELSE IF ~DbFree
          THEN /\ Answer(p, "UpdateWatch", arg, "busy", 0)
               /\ pool' = Touch(pool)
               /\ UNCHANGED db
          ELSE /\ db' = Commit([db EXCEPT !.watchlist =
                           {IF w.id = id THEN [w EXCEPT !.name = name,
                                                        !.pattern = pattern]
                            ELSE w : w \in @}])
               /\ pool' = Touch(pool)
               /\ loc' = [loc EXCEPT ![p] = [Idle EXCEPT !.op = "UpdateWatch",
                                                         !.arg = arg]]
               /\ pc' = [pc EXCEPT ![p] = "uw_rematch"]
               /\ UNCHANGED ret
    /\ UNCHANGED <<fs, dbLock, muW, muR, last, faults, calc>>

\* A goroutine of Spawned that is not running.
FreeGoroutine == CHOOSE g \in Spawned : pc[g] = "idle"

\* The rest of UpdateWatch: the DELETE of the subscription's matches (its
\* error dropped), GetWatch, and for an enabled subscription
\* `go s.matchAllForWatch(item)` with the item GetWatch read.
UwRematch(p) ==
    /\ pc[p] = "uw_rematch"
    /\ LET id    == loc[p].arg.id
           found == {w \in db.watchlist : w.id = id /\ w.enabled}
       IN /\ db' = Commit(IF DbFree THEN [db EXCEPT !.matches = {m \in @ : m.wid # id}]
                   ELSE db)
          /\ IF found = {}
             THEN Return(p, None, 0)
             ELSE /\ \E g \in Spawned : pc[g] = "idle"
                  /\ ret' = [proc |-> p, op |-> "UpdateWatch",
                                                arg |-> loc[p].arg,
                                                err |-> None, val |-> 0,
                                                rows |-> {}]
                  /\ loc' = [loc EXCEPT
                               ![p] = Idle,
                               ![FreeGoroutine] =
                                   [Idle EXCEPT !.op = "matchAllForWatch",
                                                !.item = CHOOSE w \in found : TRUE]]
                  /\ pc' = [pc EXCEPT ![p] = "idle",
                                      ![FreeGoroutine] = "bf_start"]
    /\ pool' = Touch(pool)
    /\ UNCHANGED <<fs, dbLock, muW, muR, last, ops, faults, calc>>

\* Faulty variant of SeenByWatch: the WHERE clause is missing.
SeenByWatchAll(d, id) ==
    [d EXCEPT !.matches = {[m EXCEPT !.seen = TRUE] : m \in @}]

\* UPDATE watchlist_matches SET seen = 1 WHERE watchlist_id = ?
SeenByWatch(d, id) ==
    [d EXCEPT !.matches =
        {IF m.wid = id THEN [m EXCEPT !.seen = TRUE] ELSE m : m \in @}]

\* UPDATE watchlist_matches SET seen = 1 WHERE session_id = ?
SeenBySession(d, sid) ==
    [d EXCEPT !.matches =
        {IF m.sid = sid THEN [m EXCEPT !.seen = TRUE] ELSE m : m \in @}]

\* MarkWatchSeen marks all matches for a watchlist item as seen.
MarkWatchSeen(p, id) ==
    /\ pc[p] = "idle" /\ ops < MaxOps
    /\ ops' = ops + 1
    /\ IF DbFree
       THEN /\ db' = Commit(SeenByWatch(db, id))
            /\ Answer(p, "MarkWatchSeen", [NoArg EXCEPT !.id = id], None, 0)
       ELSE /\ Answer(p, "MarkWatchSeen", [NoArg EXCEPT !.id = id], "busy", 0)
            /\ UNCHANGED db
    /\ pool' = Touch(pool)
    /\ UNCHANGED <<fs, dbLock, muW, muR, last, faults, calc>>

\* MarkSessionSeen marks all watchlist matches for a specific session as seen.
MarkSessionSeen(p, sid) ==
    /\ pc[p] = "idle" /\ ops < MaxOps
    /\ ops' = ops + 1
    /\ IF DbFree
       THEN /\ db' = Commit(SeenBySession(db, sid))
            /\ Answer(p, "MarkSessionSeen", [NoArg EXCEPT !.sid = sid], None, 0)
       ELSE /\ Answer(p, "MarkSessionSeen", [NoArg EXCEPT !.sid = sid], "busy", 0)
            /\ UNCHANGED db
    /\ pool' = Touch(pool)
    /\ UNCHANGED <<fs, dbLock, muW, muR, last, faults, calc>>

\* -------------------------------------------------------------------- Reset
\* Faulty variant of ResetTables: the DELETE of the files is missing.
ResetTablesNoFiles == <<"watchlist_matches", "watchlist", "saved_filters",
                        "messages", "sessions">>

\* The tables Reset empties, in its order.
ResetTables == <<"watchlist_matches", "watchlist", "saved_filters",
                 "messages", "sessions", "files">>

\* DELETE FROM t, with the cascades of the schema where foreign keys are
\* enforced (saved_filters is a table no operation of the model reads).
ClearTable(fk, d, t) ==
    IF t = "watchlist_matches" THEN [d EXCEPT !.matches = {}]
    ELSE IF t = "watchlist"
         THEN [d EXCEPT !.watchlist = {}, !.matches = IF fk THEN {} ELSE @]
    ELSE IF t = "messages"
         THEN messages_ad([d EXCEPT !.messages = {},
                                    !.matches = IF fk THEN {} ELSE @],
                          d.messages)
    ELSE IF t = "sessions" THEN [d EXCEPT !.sessions = {}]
    ELSE IF t = "files"
         THEN [d EXCEPT !.files = {}, !.sessions = IF fk THEN {} ELSE @]
    ELSE d

\* The i-th DELETE of Reset, each autocommitted; the first error makes Reset
\* return it, the tables before it emptied; the deferred Unlock follows the
\* return.  The rebuild of the full-text index follows the last DELETE.
ResetDelete(p, i) ==
    IF ~DbFree
    THEN /\ ret' = [proc |-> p, op |-> "Reset", arg |-> NoArg,
                                       err |-> "busy", val |-> 0, rows |-> {}]
         /\ loc' = [loc EXCEPT ![p] = Idle]
         /\ pc' = [pc EXCEPT ![p] = "idle"]
         /\ muW' = None
         /\ UNCHANGED db
    ELSE /\ db' = Commit(IF i = Len(ResetTables)
                          THEN FtsRebuild(ClearTable(Top(pool), db,
                                                     ResetTables[i]))
                          ELSE ClearTable(Top(pool), db, ResetTables[i]))
         /\ IF i = Len(ResetTables)
            THEN /\ ret' = [proc |-> p, op |-> "Reset", arg |-> NoArg,
                                               err |-> None, val |-> 0,
                                               rows |-> {}]
                 /\ loc' = [loc EXCEPT ![p] = Idle]
                 /\ pc' = [pc EXCEPT ![p] = "idle"]
                 /\ muW' = None
            ELSE /\ loc' = [loc EXCEPT ![p] = [Idle EXCEPT !.op = "Reset",
                                                           !.total = i + 1]]
                 /\ pc' = [pc EXCEPT ![p] = "rs_delete"]
                 /\ muW' = p
                 /\ UNCHANGED ret

\* Reset: s.mu.Lock() and the first DELETE.
Reset(p) ==
    /\ pc[p] = "idle" /\ ops < MaxOps
    /\ muW = None /\ muR = {}
    /\ ops' = ops + 1
    /\ ResetDelete(p, 1)
    /\ pool' = Touch(pool)
    /\ UNCHANGED <<fs, dbLock, muR, last, faults, calc>>

\* The following DELETEs of Reset.
RsDelete(p) ==
    /\ pc[p] = "rs_delete"
    /\ ResetDelete(p, loc[p].total)
    /\ pool' = Touch(pool)
    /\ UNCHANGED <<fs, dbLock, muR, last, ops, faults, calc>>

\* ------------------------------------------------------------------ queries
\* A query that takes the read lock (Search, SearchSessions,
\* SearchInSession, SessionsByProject, SessionsByIDs, ListWatches,
\* MatchesForWatch), here the messages of one session: s.mu.RLock() and the
\* SELECT.
SearchInSession(p, sid) ==
    /\ pc[p] = "idle" /\ ops < MaxOps
    /\ muW = None
    /\ ops' = ops + 1
    /\ muR' = muR \cup {p}
    /\ loc' = [loc EXCEPT ![p] = [Idle EXCEPT !.op = "SearchInSession",
                                              !.arg = [NoArg EXCEPT !.sid = sid],
                                              !.rows = {m \in db.messages : m.sid = sid}]]
    /\ pc' = [pc EXCEPT ![p] = "rd_unlock"]
    /\ pool' = Touch(pool)
    /\ UNCHANGED <<fs, db, dbLock, muW, ret, last, faults, calc>>

\* The deferred s.mu.RUnlock() of the query, which returns the rows read.
RdUnlock(p) ==
    /\ pc[p] = "rd_unlock"
    /\ muR' = muR \ {p}
    /\ ret' = [proc |-> p, op |-> loc[p].op, arg |-> loc[p].arg,
                                  err |-> None, val |-> Cardinality(loc[p].rows),
                                  rows |-> loc[p].rows]
    /\ loc' = [loc EXCEPT ![p] = Idle]
    /\ pc' = [pc EXCEPT ![p] = "idle"]
    /\ UNCHANGED <<fs, db, dbLock, muW, last, ops, faults, calc, pool>>

\* A query that takes no lock (MessageCount, FileCount, TotalUnseenCount,
\* GetWatch, MatchCount), here SELECT COUNT(*) FROM messages.
MessageCount(p) ==
    /\ pc[p] = "idle" /\ ops < MaxOps
    /\ ops' = ops + 1
    /\ ret' = [proc |-> p, op |-> "MessageCount", arg |-> NoArg,
                                  err |-> None, val |-> Cardinality(db.messages),
                                  rows |-> db.messages]
    /\ pool' = Touch(pool)
    /\ UNCHANGED <<fs, db, dbLock, muW, muR, pc, loc, last, faults, calc>>

\* ------------------------------------------------------------ specification
WatchIDs == 1..MaxWatches

ClientStep(p) ==
    \/ IndexAll(p)
    \/ IndexChanged(p)
    \/ Reset(p)
    \/ \E pattern \in Patterns : AddWatch(p, "n", pattern)
    \/ \E id \in WatchIDs, pattern \in Patterns : UpdateWatch(p, id, "m", pattern)
    \/ \E id \in WatchIDs : RemoveWatch(p, id)
    \/ \E id \in WatchIDs : ToggleWatch(p, id)
    \/ \E id \in WatchIDs : MarkWatchSeen(p, id)
    \/ \E sid \in Sessions : MarkSessionSeen(p, sid)
    \/ \E sid \in Sessions : MatchNewMessages(p, sid)
    \/ \E sid \in Sessions : SearchInSession(p, sid)
    \/ MessageCount(p)
    \/ IaNext(p) \/ IcNext(p)
    \/ IxDelMsgs(p) \/ IxDelSess(p) \/ IxDelFile(p) \/ IxInsert(p) \/ IxCommit(p)
    \/ MnmList(p) \/ MnmItem(p)
    \/ UwRematch(p) \/ RsDelete(p) \/ RdUnlock(p)

Next ==
    \/ \E p \in Clients : ClientStep(p)
    \/ \E p \in Procs : BfStart(p) \/ BfInsert(p) \/ BfCommit(p)
    \/ \E path \in LiveFiles : AppendLog(path)

Spec == Init /\ [][Next]_vars

\* The steps by which goroutine p goes on with the operation it runs.
Continue(p) ==
    \/ IaNext(p) \/ IcNext(p)
    \/ IxDelMsgs(p) \/ IxDelSess(p) \/ IxDelFile(p) \/ IxInsert(p) \/ IxCommit(p)
    \/ MnmList(p) \/ MnmItem(p)
    \/ UwRematch(p) \/ RsDelete(p) \/ RdUnlock(p)
    \/ BfStart(p) \/ BfInsert(p) \/ BfCommit(p)

\* Every goroutine that can go on does so in the end (the Go scheduler, and
\* a sync.RWMutex that lets no waiter starve), from an indexed store with a
\* subscription and no storage error.
InitLive ==
    /\ fs = [p \in Paths |-> 1]
    /\ db = WatchedDB
    /\ dbLock = None
    /\ muW = None
    /\ muR = {}
    /\ pc = [p \in Procs |-> "idle"]
    /\ loc = [p \in Procs |-> Idle]
    /\ ret = NoRet
    /\ last = NoLast
    /\ ops = 0
    /\ faults = 0
    /\ calc = NoCalc
    /\ pool = OpenPool

\* Goroutine p can take its next step: it runs an operation and does not
\* wait for Store.mu (s.mu.Lock() in matchAllForWatch, s.mu.RLock() in
\* ListWatches).  No other step of an operation waits: a statement that
\* finds the database locked fails at once, busy_timeout being 0.
Runnable(p) ==
    CASE pc[p] = "idle"     -> FALSE
      [] pc[p] = "bf_start" -> muW = None /\ muR = {}
      [] pc[p] = "mnm_list" -> muW = None
      [] OTHER              -> TRUE

\* Weak fairness of Continue(p), its enabling condition spelt out.
Fair(p) == []<>(~Runnable(p)) \/ []<><<Continue(p)>>_vars

SpecLive == InitLive /\ [][Next]_vars /\ \A p \in Procs : Fair(p)

\* The store called by one goroutine at a time, as the package's tests call
\* it, with no storage error; the goroutines UpdateWatch starts still run
\* beside the caller.
InitSeq ==
    /\ fs = [p \in Paths |-> 1]
    /\ db \in InitialDBs \cup {PausedDB}
    /\ dbLock = None
    /\ muW = None
    /\ muR = {}
    /\ pc = [p \in Procs |-> "idle"]
    /\ loc = [p \in Procs |-> Idle]
    /\ ret = NoRet
    /\ last = NoLast
    /\ ops = 0
    /\ faults = 0
    /\ calc = NoCalc
    /\ pool = OpenPool

NextSeq ==
    \/ ClientStep("c1")
    \/ \E p \in Procs : BfStart(p) \/ BfInsert(p) \/ BfCommit(p)
    \/ \E path \in LiveFiles : AppendLog(path)

SpecSeq == InitSeq /\ [][NextSeq]_vars

\* ------------------------------------------------- a record's text, alone
\* The record types whose text the store indexes, and the lengths (in
\* runes) of the texts tried: around every cut of the pipeline.
TextTypes == {"user", "assistant", "tool-result"}
TextRunes ==
    {0, 1} \cup {c + k : c \in {ToolResultMax, StoredTextMax, StoredTextMax \div 2},
                         k \in {-1, 0, 1, 3}}

\* A log line of some type holding some text, about to be loaded.
InitText ==
    /\ fs = [p \in Paths |-> 1]
    /\ db = EmptyDB
    /\ dbLock = None
    /\ muW = None
    /\ muR = {}
    /\ pc = [p \in Procs |-> "idle"]
    /\ loc = [p \in Procs |-> Idle]
    /\ ret = NoRet
    /\ last = NoLast
    /\ ops = 0
    /\ faults = 0
    /\ pool = OpenPool
    /\ \E type \in TextTypes, n \in TextRunes, w \in 1..MaxWidth :
          calc = [stage |-> "record", type |-> type,
                  extracted |-> Text(n * w, 0, w), val |-> Text(n * w, 0, w)]

\* claude.LoadMessages parses the line.
ParseRecord ==
    /\ calc.stage = "record"
    /\ calc' = IF Unparsed(calc.type, calc.extracted)
               THEN [calc EXCEPT !.stage = "dropped"]
               ELSE [calc EXCEPT !.stage = "message",
                                 !.val = ParsedText(calc.type, calc.extracted)]
    /\ UNCHANGED storeVars

\* indexFile inserts the message row.
StoreMessage ==
    /\ calc.stage = "message"
    /\ calc' = [calc EXCEPT !.stage = "row", !.val = IndexedText(@)]
    /\ UNCHANGED storeVars

\* Search returns the row.
SearchRow ==
    /\ calc.stage = "row"
    /\ calc' = [calc EXCEPT !.stage = "result", !.val = ResultText(@)]
    /\ UNCHANGED storeVars

NextText == ParseRecord \/ StoreMessage \/ SearchRow

SpecText == InitText /\ [][NextText]_vars

\* ================================================================== claims
\* The message rows of session sid in rowid order.
SessionRows(d, sid) == ById({m \in d.messages : m.sid = sid})

\* The rows are, in order, the stored events of evs.
RowsAre(rows, evs) ==
    /\ Len(rows) = Len(StoredEvents(evs))
    /\ \A i \in 1..Len(rows) : /\ rows[i].text = StoredEvents(evs)[i].text
                               /\ rows[i].type = StoredEvents(evs)[i].type

\* Goroutine p's indexFile call returns in this step.
IxReturns(p) == pc[p] \in {"ix_insert", "ix_delmsgs", "ix_delsess",
                           "ix_delfile", "ix_commit"}
                /\ pc'[p] \in {"ia_next", "ic_next"}

\* The store holds for path one file row, one session row, and as the
\* session's messages the stored events of the file at version v.
Replaced(d, path, v) ==
    /\ Cardinality({f \in d.files : f.path = path}) = 1
    /\ Cardinality({x \in d.sessions : x.sid = SessionID(path)}) = 1
    /\ \A f \in d.files : \A x \in d.sessions :
          (f.path = path /\ x.sid = SessionID(path)) =>
              /\ x.fid = f.id
              /\ x.message_count = Len(StoredEvents(LoadMessages(v)))
    /\ RowsAre(SessionRows(d, SessionID(path)), LoadMessages(v))

\* C1: when indexFile(path) returns without error on a path that was already
\* indexed, the store holds for that path exactly one file row and one
\* session row, and the session's message rows are exactly the stored events
\* of the content indexFile read: the new count, not the old plus the new
\* and not a part of the new.
C1_ReindexReplaces ==
    [][\A p \in Clients :
          (IxReturns(p) /\ loc[p].old # 0 /\ last'.ok)
              => Replaced(db', loc[p].path, loc[p].mtime)]_vars

\* Goroutine p calls AddWatch or UpdateWatch with this pattern in this step.
WatchCall(p, pattern) ==
    \/ AddWatch(p, "n", pattern)
    \/ \E id \in WatchIDs : UpdateWatch(p, id, "m", pattern)

\* C8: AddWatch and UpdateWatch called with a pattern that does not compile
\* return an error and change nothing in the store: the watchlist rows (their
\* number, names, patterns, enabled flags) and the match rows are the same
\* before and after the call, whatever the other goroutines are doing.
C8_InvalidPatternChangesNothing ==
    [][\A p \in Clients : \A pattern \in Patterns :
          (pattern \notin ValidPatterns /\ WatchCall(p, pattern))
              => /\ db' = db
                 /\ ret'.proc = p
                 /\ ret'.err = "invalid regex"]_vars

\* C8 witness: UpdateWatch on an existing subscription that has matches was
\* refused for its pattern, and the subscription and its matches are there.
C8_Witness ==
    /\ ret.op = "UpdateWatch" /\ ret.err = "invalid regex"
    /\ ret.arg.pattern = "["
    /\ \E w \in db.watchlist : /\ w.id = ret.arg.id
                               /\ w.pattern \in ValidPatterns
                               /\ \E m \in db.matches : m.wid = w.id

\* Goroutine p's AddWatch call returns without error in this step.
AddWatchReturns(p) ==
    /\ loc[p].op = "AddWatch"
    /\ pc[p] \in {"bf_start", "bf_insert", "bf_commit"}
    /\ pc'[p] = "idle"
    /\ ret'.proc = p /\ ret'.op = "AddWatch" /\ ret'.err = None

Unflagged(d) == {[id |-> m.id, wid |-> m.wid, mid |-> m.mid, sid |-> m.sid]
                    : m \in d.matches}

\* C10: a MarkWatchSeen(id) that succeeds leaves subscription id with unseen
\* count 0 and every match row of another subscription as it was; a
\* MarkSessionSeen(sid) that succeeds leaves every match of session sid seen
\* and every match of another session as it was; neither adds or removes a
\* match row, nor touches another table.
C10_MarkSeenFrame ==
    [][\A p \in Clients :
          /\ \A id \in WatchIDs :
                (MarkWatchSeen(p, id) /\ ret'.err = None) =>
                    /\ UnseenCount(db', id) = 0
                    /\ {m \in db'.matches : m.wid # id}
                           = {m \in db.matches : m.wid # id}
                    /\ Unflagged(db') = Unflagged(db)
                    /\ Cardinality(db'.matches) = Cardinality(db.matches)
                    /\ [db' EXCEPT !.matches = {}, !.seq = 0]
                           = [db EXCEPT !.matches = {}, !.seq = 0]
          /\ \A sid \in Sessions :
                (MarkSessionSeen(p, sid) /\ ret'.err = None) =>
                    /\ \A m \in db'.matches : m.sid = sid => m.seen
                    /\ {m \in db'.matches : m.sid # sid}
                           = {m \in db.matches : m.sid # sid}
                    /\ Unflagged(db') = Unflagged(db)
                    /\ Cardinality(db'.matches) = Cardinality(db.matches)
                    /\ [db' EXCEPT !.matches = {}, !.seq = 0]
                           = [db EXCEPT !.matches = {}, !.seq = 0]
      ]_vars

\* C10 witness: MarkWatchSeen has returned for a subscription all of whose
\* matches are now seen, while another subscription still has unseen ones.
C10_Witness ==
    /\ ret.op = "MarkWatchSeen" /\ ret.err = None
    /\ \E m \in db.matches : m.wid = ret.arg.id /\ m.seen
    /\ UnseenCount(db, ret.arg.id) = 0
    /\ \E m \in db.matches : m.wid # ret.arg.id /\ ~m.seen

\* C2: no subscription has two match rows for one message, in any reachable
\* state (any interleaving of AddWatch, UpdateWatch, MatchNewMessages,
\* IndexAll and IndexChanged).
C2_OneMatchPerPair ==
    \A x, y \in db.matches : (x.wid = y.wid /\ x.mid = y.mid) => x = y

\* C3: an indexFile call in which a statement failed (a DELETE refused, the
\* INSERT of a message row failed) returns an error and leaves the committed
\* rows as they were: nothing of a partly indexed file is committed.
C3_AllOrNothing ==
    [][\A p \in Clients :
          (IxReturns(p) /\ loc[p].failed) => (db' = db /\ ~last'.ok)]_vars

\* The rows are nothing, or all the stored events of one version of a file.
WholeFile(rows) ==
    \/ rows = {}
    \/ \E v \in 1..MaxVer : RowsAre(ById(rows), LoadMessages(v))

\* C4: what a read query returns for the session of a file that is indexed
\* again is the content of one indexing of the file, all of the old messages
\* or all of the new ones: never a part of them and never a mix.
C4_ReadersSeeWholeFiles ==
    (ret.op \in {"SearchInSession", "MessageCount"} /\ last.reindex) =>
        WholeFile({m \in ret.rows : m.sid = SessionID(last.path)})

\* C5: every step that changes the committed content of the database is
\* taken while Store.mu is held for writing.
C5_WritesHoldWriterLock ==
    [][db' # db => (muW # None \/ muW' # None)]_vars

\* Goroutine p runs a read-only query in this step.
Reads(p) == MessageCount(p) \/ \E sid \in Sessions : SearchInSession(p, sid)

\* C6: a read-only query reads while it holds Store.mu for reading, and so
\* never while a writer holds it.
C6_ReadsHoldReadLock ==
    [][\A p \in Clients : Reads(p) => (p \in muR' /\ muW = None)]_vars

\* Goroutine p is inside indexFile.
InIndexFile(p) == pc[p] \in {"ix_delmsgs", "ix_delsess", "ix_delfile",
                             "ix_insert", "ix_commit"}

\* C7: at most one goroutine is replacing a file at a time, and when no
\* operation is running every indexed path has one file row, one session
\* row and the messages of one indexing of it.
C7_IndexingSerialized ==
    /\ Cardinality({p \in Procs : InIndexFile(p)}) <= 1
    /\ (\A p \in Procs : pc[p] = "idle") =>
           \A f \in db.files : \E v \in 1..MaxVer : Replaced(db, f.path, v)

\* No operation is running and no backfill goroutine is left.
Quiescent == \A p \in Procs : pc[p] = "idle"

\* The match rows of subscription w are one per stored message its pattern
\* matches, all unseen, and nothing else.
BackfilledExactly(d, w) ==
    /\ \A x \in d.matches : x.wid = w.id =>
          /\ ~x.seen
          /\ \E m \in d.messages : /\ m.id = x.mid /\ m.sid = x.sid
                                   /\ Matches(compiledRegex(w.pattern), m.text)
    /\ \A m \in d.messages : Matches(compiledRegex(w.pattern), m.text) =>
          Cardinality({x \in d.matches : x.wid = w.id /\ x.mid = m.id}) = 1

\* C11: once UpdateWatch(id, name, pattern) has returned without error and
\* every backfill goroutine has finished, the match rows of the (enabled)
\* subscription id are exactly one per stored message the new pattern
\* matches, all unseen: no match of an earlier pattern is left or comes back,
\* also after several updates in a row.
C11_UpdateRebackfills ==
    (Quiescent /\ ret.op = "UpdateWatch" /\ ret.err = None) =>
        \A w \in db.watchlist :
            (w.id = ret.arg.id /\ w.enabled /\ w.pattern = ret.arg.pattern)
                => BackfilledExactly(db, w)

\* The count MatchNewMessages of p has reached after a turn of its loop:
\* the value it returns, or its local total.
TotalAfter(p) == IF pc'[p] = "idle" THEN ret'.val ELSE loc'[p].total

\* C12: every turn of the loop of a MatchNewMessages(ids) call adds rows only
\* for the subscription it evaluates (enabled when the call listed them) and
\* only for messages of ids, at most one per message, each unseen, and the
\* count the call returns grows by the number of rows added.
C12_MatchNewCounts ==
    [][\A p \in Clients :
          (MnmItem(p) /\ loc[p].op = "MatchNewMessages") =>
              LET added == db'.matches \ db.matches
                  item  == Head(loc[p].items)
              IN /\ \A x \in added : /\ x.wid = item.id /\ item.enabled
                                     /\ x.mid \in loc[p].arg.ids
                                     /\ ~x.seen
                 /\ \A x, y \in added : x.mid = y.mid => x = y
                 /\ TotalAfter(p) = loc[p].total + Cardinality(added)]_vars

\* Everything the store holds for the file path: its file row, and the
\* session row, message rows and watch matches of its session.
FileState(d, path) ==
    [file     |-> {f \in d.files : f.path = path},
     sessions |-> {x \in d.sessions : x.sid = SessionID(path)},
     messages |-> {m \in d.messages : m.sid = SessionID(path)},
     matches  |-> {x \in d.matches : x.sid = SessionID(path)}]

\* The file row stored for path carries the file's current mtime and size.
StoredIsCurrent(d, path) ==
    \A f \in d.files : f.path = path =>
        (f.mtime = fs[path] /\ f.size = Len(LoadMessages(fs[path])))

\* Goroutine p takes the step, inside IndexChanged.
IndexChangedStep(p) ==
    /\ loc[p].op = "IndexChanged"
    /\ (pc'[p] # pc[p] \/ loc'[p] # loc[p])

\* The pass of p has replaced the file: its message rows are among the IDs
\* the pass collected.
ReplacedInPass(p, path) ==
    \E m \in FileState(db, path).messages : m.id \in loc[p].ids

\* C13: no step of IndexChanged touches what is stored for a file whose
\* stored mtime and size are the current ones and that this pass has not
\* replaced (file row, session row,
\* message rows with their IDs, watch matches with their seen flags), it
\* calls indexFile only on files that are new or changed, the count of
\* changed files grows exactly when an indexFile call has replaced
\* a file, and that count is what IndexChanged returns.
C13_IndexChangedFrame ==
    [][\A p \in Clients : IndexChangedStep(p) =>
          /\ \A f \in Paths :
                (FileState(db, f).file # {} /\ StoredIsCurrent(db, f)
                    /\ f # loc[p].path /\ ~ReplacedInPass(p, f))
                    => FileState(db', f) = FileState(db, f)
          /\ (pc[p] = "ic_next" /\ loc'[p].path # NoPath) =>
                ~(FileState(db, loc'[p].path).file # {}
                     /\ StoredIsCurrent(db, loc'[p].path))
          /\ pc'[p] # "idle" =>
                loc'[p].changed = loc[p].changed +
                    (IF IxReturns(p) /\ last'.ok /\ db' # db THEN 1 ELSE 0)
          /\ pc'[p] = "idle" =>
                (ret'.op = "IndexChanged" /\ ret'.err = None
                                          /\ ret'.val = loc[p].changed)]_vars

\* C13 witness: IndexChanged has returned 1 having replaced the grown file
\* x/a, and what is stored for the unchanged x/b, its watch match included,
\* is what was stored before.
C13_Witness ==
    /\ ret.op = "IndexChanged" /\ ret.err = None /\ ret.val = 1
    /\ \E f \in db.files : f.path = <<"x", "a">> /\ f.mtime = 2
    /\ FileState(db, <<"x", "b">>) = FileState(WatchedDB, <<"x", "b">>)
    /\ FileState(db, <<"x", "b">>).matches # {}

\* IndexAll or IndexChanged of goroutine p returns in this step.
PassReturns(p) ==
    /\ loc[p].op \in {"IndexAll", "IndexChanged"}
    /\ pc[p] # "idle" /\ pc'[p] = "idle"

\* C14: when IndexAll or IndexChanged returns, every stored message the pass
\* inserted (its ID is among those the pass collected) whose text matches
\* the pattern of an enabled subscription has a match row of that
\* subscription.
C14_PassMatchesNewMessages ==
    [][\A p \in Clients : PassReturns(p) =>
          \A m \in db'.messages : \A w \in db'.watchlist :
              (m.id \in loc[p].ids /\ w.enabled
                   /\ Matches(compiledRegex(w.pattern), m.text))
                  => \E x \in db'.matches : x.wid = w.id /\ x.mid = m.id]_vars

\* Goroutine p takes the step.
StepOf(p) == pc'[p] # pc[p] \/ loc'[p] # loc[p]

\* The indexFile call of goroutine p returns an error in this step.
IxFails(p) == IxReturns(p) /\ ~last'.ok

\* The file of the next turn of p's loop cannot be read: indexFile returns
\* the error before it has opened a transaction.
ReadFails(p) ==
    /\ pc[p] \in {"ia_next", "ic_next"} /\ pc'[p] = pc[p]
    /\ last' # last /\ last'.proc = p /\ ~last'.ok

Emptied(d) ==
    /\ d.files = {} /\ d.sessions = {} /\ d.messages = {}
    /\ d.watchlist = {} /\ d.matches = {}

\* The Reset of goroutine p returns without error in this step.
ResetReturnsOk(p) ==
    /\ RsDelete(p) /\ pc'[p] = "idle"
    /\ ret'.op = "Reset" /\ ret'.err = None

SessionStats(d, sid) ==
    [rows |-> Cardinality({m \in d.messages : m.sid = sid}),
     aggs |-> {<<x.message_count, x.total_input_tokens,
                 x.total_output_tokens, x.tool_count>> :
                   x \in {y \in d.sessions : y.sid = sid}}]

\* The indexFile call of p that returns in this step has indexed again the
\* content the store was holding for the path (same version of the file).
ReindexesSame(p) ==
    /\ IxReturns(p) /\ last'.ok /\ loc[p].old # 0
    /\ \E f \in db.files : f.path = loc[p].path /\ f.mtime = loc[p].mtime

\* C17: indexing a file again whose content has not changed leaves the
\* number of message rows of its session and the aggregates of its session
\* row (message count, input tokens, output tokens, tool count) as they were.
C17_IndexFileIdempotent ==
    [][\A p \in Clients : ReindexesSame(p) =>
          SessionStats(db', SessionID(loc[p].path))
              = SessionStats(db, SessionID(loc[p].path))]_vars

\* COUNT(*), SUM(input_tokens), SUM(output_tokens) and the number of tool
\* calls over a sequence of message rows.
RECURSIVE MessageTotals(_)
MessageTotals(rows) ==
    IF rows = <<>>
    THEN [count |-> 0, input |-> 0, output |-> 0, tools |-> 0]
    ELSE LET m == Head(rows)
             t == MessageTotals(Tail(rows))
         IN [count  |-> t.count + 1,
             input  |-> t.input + m.input_tokens,
             output |-> t.output + m.output_tokens,
             tools  |-> t.tools + Len(m.tool_calls)]

\* The aggregates of session row x are those of the message rows of its
\* session_id.
AggregatesAgree(d, x) ==
    LET t == MessageTotals(SessionRows(d, x.sid))
    IN /\ x.message_count = t.count
       /\ x.total_input_tokens = t.input
       /\ x.total_output_tokens = t.output
       /\ x.tool_count = t.tools

\* C19: in every committed state every session row's message_count is the
\* number of message rows of its session_id, its token totals are the sums
\* of those rows' token columns and its tool_count their number of tool
\* calls.
C19_SessionAggregates == \A x \in db.sessions : AggregatesAgree(db, x)

\* The timestamps of the message rows of session sid, the empty ones left
\* out.
Timestamps(d, sid) ==
    {m.timestamp : m \in {x \in d.messages : x.sid = sid /\ x.timestamp # 0}}

Earliest(S) == CHOOSE x \in S : \A y \in S : x <= y
Latest(S) == CHOOSE x \in S : \A y \in S : y <= x

\* C20: when an indexFile call in which no statement was refused has
\* committed, the session row of the file has as created_at the minimum and
\* as modified_at the maximum of the timestamps of the session's stored
\* messages.
C20_SessionTimeRange ==
    [][\A p \in Clients :
          (IxReturns(p) /\ last'.ok /\ last'.clean) =>
              LET sid == SessionID(loc[p].path)
                  ts  == Timestamps(db', sid)
              IN \A x \in db'.sessions :
                    (x.sid = sid /\ ts # {}) =>
                        /\ x.created_at = Earliest(ts)
                        /\ x.modified_at = Latest(ts)]_vars

\* The record followed has come back from Search, and the text extracted
\* from it was not empty.
Found == calc.stage = "result" /\ Bytes(calc.extracted) > 0

\* C18 as stated: the Text of the search result is the extracted text, but
\* for a tool result cut at 200 characters and a message text cut at 50,000.
C18_TextExact ==
    Found =>
        IF calc.type = "tool-result"
        THEN calc.val.body = Min(calc.extracted.body,
                                 ToolResultMax * calc.extracted.width)
        ELSE calc.val = IndexedText(calc.extracted)

\* C18 amended: the Text of the search result is the extracted text when
\* that has at most 200 bytes, and otherwise its first 200 bytes followed by
\* "...", for user, assistant and tool-result records alike; the cuts at 200
\* runes (tool results) and at 50,000 bytes (stored text) lie behind it.
C18_TextCutForDisplay ==
    Found =>
        calc.val = IF Bytes(calc.extracted) <= ResultTextMax THEN calc.extracted
                   ELSE Ellipsis(Prefix(calc.extracted, ResultTextMax))

\* C18 witness: a user record with a text of 201 one-byte runes has come back
\* from Search as its first 200 bytes and "...".
C18_Witness ==
    /\ Found /\ calc.type = "user"
    /\ calc.extracted = Text(ResultTextMax + 1, 0, 1)
    /\ calc.val = Text(ResultTextMax, 3, 1)

\* ------------------------------------------------------ claims C21 to C30
\* The rows of the schema hang together in the content d: one file row per
\* path, one session row per file row and one existing file row per session
\* row, and an existing session for the session_id of every message row.
OnePerPath(d) ==
    \A f, g \in d.files : f.path = g.path => f = g

SessionsOfFile(d, f) == {x \in d.sessions : x.fid = f.id}

FilesWithSessions(d) ==
    /\ \A x \in d.sessions : Cardinality({f \in d.files : f.id = x.fid}) = 1
    /\ \A f \in d.files : Cardinality(SessionsOfFile(d, f)) = 1

MessagesInSessions(d) ==
    \A m \in d.messages : \E x \in d.sessions : x.sid = m.sid

\* C21: in every committed state reachable through indexFile, IndexAll,
\* IndexChanged and Reset there is at most one file row per path, every
\* session row belongs to exactly one existing file row, every file row has
\* exactly one session row, and the session_id of every message row is that
\* of an existing session.
C21_SchemaInvariants ==
    OnePerPath(db) /\ FilesWithSessions(db) /\ MessagesInSessions(db)

\* C22: in every committed state the full-text index holds exactly one entry
\* per message row, carrying that row's text and tool-call list, and no entry
\* for a message that is no row (any more).
C22_FtsMirrorsMessages ==
    /\ \A m \in db.messages :
          /\ Cardinality({e \in db.fts : e.rowid = m.id}) = 1
          /\ \A e \in db.fts : e.rowid = m.id =>
                e.text = m.text /\ e.tool_calls = m.tool_calls
    /\ \A e \in db.fts : \E m \in db.messages : m.id = e.rowid

\* A re-index took message rows out and put new ones in, and the index has
\* entries.
C22_Witness ==
    /\ last.ok /\ last.reindex
    /\ db.fts # {}
    /\ \E m \in WatchedDB.messages : m \notin db.messages

\* --------------------------------------------- claude.LoadMessages, alone
\* scanner.Buffer(make([]byte, 0), 10*1024*1024): the largest line, in
\* bytes, the scanner can hold.
MaxLineSize == 10485760

\* The lines of a file tried.
MaxLines == 2

\* The content field of a record's message: a JSON string, a list of
\* segments, or something else (absent, a number, an object).
NoContent == [shape |-> "other", text |-> "", blocks |-> <<>>]
StringContent(s) == [shape |-> "string", text |-> s, blocks |-> <<>>]
BlockContent(bs) == [shape |-> "blocks", text |-> "", blocks |-> bs]

\* A segment of a content list (contentBlock).
Block(type, text, name) == [type |-> type, text |-> text, name |-> name]

\* The usage object of a message; present is FALSE when there is none.
NoUsage == [present |-> FALSE, input_tokens |-> 0,
            cache_read_input_tokens |-> 0, cache_creation_input_tokens |-> 0,
            output_tokens |-> 0]
Usage(in, read, creation, out) ==
    [present |-> TRUE, input_tokens |-> in, cache_read_input_tokens |-> read,
     cache_creation_input_tokens |-> creation, output_tokens |-> out]

\* A line of a log file: its length in bytes, whether it is JSON that
\* unmarshals into rawMessage, and then its type, whether its message
\* field unmarshals into messageContent ("object"; otherwise "absent" or
\* "malformed"), the content and the usage of that message.
Line(size, json, type, message, content, usage) ==
    [size |-> size, json |-> json, type |-> type, message |-> message,
     content |-> content, usage |-> usage, uuid |-> 0]

Mixed == <<Block("tool_use", "", "Read"), Block("text", "p", ""),
           Block("text", "", ""), Block("tool_use", "", "Edit"),
           Block("text", "q", "")>>

\* The kinds of line a log file is made of here.
LineKinds ==
    { Line(0, FALSE, "", "absent", NoContent, NoUsage),
      Line(15, FALSE, "", "absent", NoContent, NoUsage),
      Line(MaxLineSize - 1, TRUE, "user", "object", StringContent("p"), NoUsage),
      Line(MaxLineSize, TRUE, "user", "object", StringContent("p"), NoUsage),
      Line(60, TRUE, "progress", "absent", NoContent, NoUsage),
      Line(90, TRUE, "user", "object", StringContent("p"), NoUsage),
      Line(90, TRUE, "user", "object", StringContent(""), NoUsage),
      Line(90, TRUE, "user", "object", BlockContent(Mixed), NoUsage),
      Line(90, TRUE, "user", "object", BlockContent(<<Block("text", "", "")>>), NoUsage),
      Line(90, TRUE, "user", "object", NoContent, NoUsage),
      Line(90, TRUE, "user", "absent", NoContent, NoUsage),
      Line(90, TRUE, "assistant", "object", BlockContent(Mixed),
           Usage(100, 20, 10, 50)),
      Line(90, TRUE, "assistant", "object", BlockContent(<<Block("text", "p", "")>>),
           Usage(1, 0, 2, 0)),
      Line(90, TRUE, "assistant", "object", BlockContent(<<>>), NoUsage),
      Line(90, TRUE, "assistant", "object", StringContent("p"), Usage(3, 1, 0, 2)),
      Line(90, TRUE, "assistant", "malformed", NoContent, NoUsage),
      Line(90, TRUE, "tool-result", "object",
           BlockContent(<<Block("tool_result", "q", "")>>), NoUsage),
      Line(90, TRUE, "tool-result", "absent", NoContent, NoUsage),
      Line(90, TRUE, "system", "object", StringContent("q"), NoUsage),
      Line(90, TRUE, "system", "absent", NoContent, NoUsage) }

\* strings.Join(parts, sep)
RECURSIVE Join(_, _)
Join(parts, sep) ==
    IF parts = <<>> THEN ""
    ELSE IF Len(parts) = 1 THEN parts[1]
    ELSE parts[1] \o sep \o Join(Tail(parts), sep)

\* The non-empty texts of the segments of type "text", in order.
RECURSIVE TextParts(_)
TextParts(blocks) ==
    IF blocks = <<>> THEN <<>>
    ELSE (IF Head(blocks).type = "text" /\ Head(blocks).text # ""
          THEN <<Head(blocks).text>> ELSE <<>>) \o TextParts(Tail(blocks))

\* The names of the segments of type "tool_use", in order.
RECURSIVE ToolNames(_)
ToolNames(blocks) ==
    IF blocks = <<>> THEN <<>>
    ELSE (IF Head(blocks).type = "tool_use"
          THEN <<Head(blocks).name>> ELSE <<>>) \o ToolNames(Tail(blocks))

\* extractText: the content as a string, or the text segments of the list
\* joined by newline, or "" for any other content.
extractText(content) ==
    IF content.shape = "string" THEN content.text
    ELSE IF content.shape = "blocks" THEN Join(TextParts(content.blocks), "\n")
    ELSE ""

\* extractToolResultText: the text of the first tool_result segment (texts
\* here are shorter than the cut applied to it).
extractToolResultText(content) ==
    IF /\ content.shape = "blocks"
       /\ \E i \in 1..Len(content.blocks) : content.blocks[i].type = "tool_result"
    THEN LET i == CHOOSE k \in 1..Len(content.blocks) :
                    /\ content.blocks[k].type = "tool_result"
                    /\ \A j \in 1..(k - 1) : content.blocks[j].type # "tool_result"
         IN content.blocks[i].text
    ELSE ""

\* A parsed message (*Message); ok is FALSE for nil.
Nil == [ok |-> FALSE, type |-> "", uuid |-> 0, text |-> "", tools |-> <<>>,
        input |-> 0, output |-> 0]
Message(type, uuid, text, tools, input, output) ==
    [ok |-> TRUE, type |-> type, uuid |-> uuid, text |-> text,
     tools |-> tools, input |-> input, output |-> output]

parseUserMessage(raw) ==
    IF raw.message # "object" THEN Nil
    ELSE IF extractText(raw.content) = "" THEN Nil
    ELSE Message("user", raw.uuid, extractText(raw.content), <<>>, 0, 0)

\* Faulty variant of InputTokens: the cached tokens are left out.
InputTokensUncached(usage) == usage.input_tokens

\* msg.InputTokens for a message with usage.
InputTokens(usage) ==
    usage.input_tokens + usage.cache_read_input_tokens
        + usage.cache_creation_input_tokens

parseAssistantMessage(raw) ==
    IF raw.message # "object" THEN Nil
    ELSE IF raw.content.shape # "blocks" THEN Nil
    ELSE Message("assistant", raw.uuid,
                 Join(TextParts(raw.content.blocks), "\n"),
                 ToolNames(raw.content.blocks),
                 IF raw.usage.present THEN InputTokens(raw.usage) ELSE 0,
                 IF raw.usage.present THEN raw.usage.output_tokens ELSE 0)

parseToolResultMessage(raw) ==
    IF raw.message # "object" THEN Nil
    ELSE Message("tool-result", raw.uuid, extractToolResultText(raw.content),
                 <<>>, 0, 0)

parseSystemMessage(raw) ==
    Message("system", raw.uuid,
            IF raw.message = "object" /\ raw.content.shape = "string"
            THEN raw.content.text ELSE "", <<>>, 0, 0)

parseMessage(raw) ==
    IF raw.type = "user" THEN parseUserMessage(raw)
    ELSE IF raw.type = "assistant" THEN parseAssistantMessage(raw)
    ELSE IF raw.type = "tool-result" THEN parseToolResultMessage(raw)
    ELSE IF raw.type = "system" THEN parseSystemMessage(raw)
    ELSE Nil

\* The body of the scanning loop for one line: the messages after it.
ScanBody(messages, line) ==
    IF line.size = 0 THEN messages
    ELSE IF ~line.json THEN messages
    ELSE IF parseMessage(line).ok THEN Append(messages, parseMessage(line))
    ELSE messages

\* bufio.Scanner gives up on a line it cannot hold: Scan returns false and
\* Err returns bufio.ErrTooLong.
TooLong(line) == line.size >= MaxLineSize

\* The events indexFile is given: the loaded messages (timestamps are not
\* followed here).
RECURSIVE LoadedEvents(_)
LoadedEvents(messages) ==
    IF messages = <<>> THEN <<>>
    ELSE <<Event(Head(messages).type, Head(messages).text, 0,
                 Head(messages).input, Head(messages).output,
                 Head(messages).tools)>> \o LoadedEvents(Tail(messages))

\* A file of up to MaxLines lines is opened; the uuid of a line is its
\* number in the file.
Numbered(lines) == [i \in 1..Len(lines) |-> [lines[i] EXCEPT !.uuid = i]]

InitLoad ==
    /\ fs = [p \in Paths |-> 1]
    /\ db = EmptyDB
    /\ dbLock = None
    /\ muW = None
    /\ muR = {}
    /\ pc = [p \in Procs |-> "idle"]
    /\ loc = [p \in Procs |-> Idle]
    /\ ret = NoRet
    /\ last = NoLast
    /\ ops = 0
    /\ faults = 0
    /\ pool = OpenPool
    /\ \E n \in 1..MaxLines : \E lines \in [1..n -> LineKinds] :
          calc = [stage |-> "scan", lines |-> Numbered(lines), pos |-> 1,
                  messages |-> <<>>, err |-> None, db |-> EmptyDB]

\* One turn of the loop of LoadMessages: scanner.Scan() and the body.
ScanLine ==
    /\ calc.stage = "scan"
    /\ calc.pos <= Len(calc.lines)
    /\ ~TooLong(calc.lines[calc.pos])
    /\ calc' = [calc EXCEPT !.pos = @ + 1,
                            !.messages = ScanBody(@, calc.lines[calc.pos])]
    /\ UNCHANGED storeVars

\* scanner.Scan() returns false, at the end of the file or on a line too
\* long, and LoadMessages returns the messages and scanner.Err().
ScanEnd ==
    /\ calc.stage = "scan"
    /\ IF calc.pos > Len(calc.lines) THEN TRUE
       ELSE TooLong(calc.lines[calc.pos])
    /\ calc' = [calc EXCEPT !.stage = "loaded",
                            !.err = IF calc.pos <= Len(calc.lines)
                                    THEN "token too long" ELSE None]
    /\ UNCHANGED storeVars

\* indexFile, given the messages, fills an empty store (it returns the
\* error of LoadMessages otherwise).
IndexLoaded ==
    /\ calc.stage = "loaded"
    /\ calc.err = None
    /\ calc' = [calc EXCEPT !.stage = "indexed",
                            !.db = FileInserts(TRUE, EmptyDB, AllFiles[1], 1,
                                       LoadedEvents(calc.messages), 0).db]
    /\ UNCHANGED storeVars

NextLoad == ScanLine \/ ScanEnd \/ IndexLoaded

SpecLoad == InitLoad /\ [][NextLoad]_vars

\* "(m.input_tokens + m.output_tokens)": what a tokens filter compares.
TokenSum(m) == m.input_tokens + m.output_tokens

\* The lines of the file that must contribute an event: all but the empty
\* ones, those that are not JSON, those of an unrecognized type and the user
\* records whose extracted text is empty.
Discarded(line) ==
    \/ line.size = 0
    \/ ~line.json
    \/ line.type \notin {"user", "assistant", "tool-result", "system"}
    \/ line.type = "user" /\ extractText(line.content) = ""

RECURSIVE Contributing(_)
Contributing(lines) ==
    IF lines = <<>> THEN <<>>
    ELSE (IF Discarded(Head(lines)) THEN <<>> ELSE <<Head(lines).uuid>>)
         \o Contributing(Tail(lines))

\* C23: LoadMessages never fails or stops because of a line's content: the
\* lines that are empty, not JSON, of an unrecognized type or user records
\* with empty text contribute no event, every other line exactly one, in file
\* order.
C23_LoadToleratesNoise ==
    calc.stage = "loaded" =>
        /\ calc.err = None
        /\ [i \in 1..Len(calc.messages) |-> calc.messages[i].uuid]
               = Contributing(calc.lines)

\* The user and assistant records LoadMessages has read whose content is a
\* string or a list of segments (a user record with no text left aside).
HasContent(line) ==
    /\ line.size > 0 /\ line.json /\ line.message = "object"
    /\ line.type \in {"user", "assistant"}
    /\ line.content.shape \in {"string", "blocks"}
    /\ ~(line.type = "user" /\ extractText(line.content) = "")

\* C24: text extraction handles both content shapes for user and assistant
\* records alike: a plain string yields an event with that text, a list of
\* segments yields an event whose text is the non-empty text segments joined
\* by newline, in order, and whose toolCalls are the tool_use segments, in
\* order.
C24_BothContentShapes ==
    (calc.stage = "loaded" /\ calc.err = None) =>
        \A i \in 1..Len(calc.lines) :
            LET line == calc.lines[i]
            IN HasContent(line) =>
                 \E k \in 1..Len(calc.messages) :
                    /\ calc.messages[k].uuid = i
                    /\ calc.messages[k].type = line.type
                    /\ calc.messages[k].text =
                          (IF line.content.shape = "string"
                           THEN line.content.text
                           ELSE Join(TextParts(line.content.blocks), "\n"))
                    /\ calc.messages[k].tools = ToolNames(line.content.blocks)

\* The message row stored for the k-th loaded message (the store was empty
\* and rowids count from 1).
RowOf(k) == CHOOSE r \in calc.db.messages : r.id = k

\* C25: for an assistant record with usage the stored inputTokens is
\* input_tokens + cache_read_input_tokens + cache_creation_input_tokens and
\* the stored outputTokens is output_tokens; these stored values are the
\* ones summed into the session totals and compared by the tokens filter.
C25_EffectiveInputTokens ==
    calc.stage = "indexed" =>
        /\ \A k \in 1..Len(calc.messages) :
              LET usage == calc.lines[calc.messages[k].uuid].usage
              IN (calc.messages[k].type = "assistant" /\ usage.present) =>
                    /\ RowOf(k).input_tokens =
                          usage.input_tokens + usage.cache_read_input_tokens
                              + usage.cache_creation_input_tokens
                    /\ RowOf(k).output_tokens = usage.output_tokens
                    /\ TokenSum(RowOf(k)) =
                          usage.input_tokens + usage.cache_read_input_tokens
                              + usage.cache_creation_input_tokens
                              + usage.output_tokens
        /\ \A x \in calc.db.sessions : AggregatesAgree(calc.db, x)

\* The record with 100 input, 20 cache-read, 10 cache-creation and 50 output
\* tokens is stored with 130 and 50, after another assistant record, and the
\* session totals count both.
C25_Witness ==
    /\ calc.stage = "indexed"
    /\ \E r \in calc.db.messages :
          r.id = 2 /\ r.input_tokens = 130 /\ r.output_tokens = 50
    /\ \E x \in calc.db.sessions :
          x.total_input_tokens = 133 /\ x.total_output_tokens = 50

\* ------------------------------------------------- the query language, alone
\* Strings are sequences of characters here.  The longest query made of any
\* characters, and the most tokens a query is put together from.
MaxQuery == 5
MaxTokens == 2

\* The characters of the queries tried at every length.
QueryChars == {" ", "\t", "\"", "a", ":"}

\* unicode.IsSpace
IsSpace(r) == r \in {" ", "\t", "\n", "\r"}

\* `"deploy to production" quickly`
QuotedPhrase ==
    <<"\"", "d", "e", "p", "l", "o", "y", " ", "t", "o", " ",
      "p", "r", "o", "d", "u", "c", "t", "i", "o", "n", "\"">>
Quickly == <<"q", "u", "i", "c", "k", "l", "y">>
QuotedExample == QuotedPhrase \o <<" ">> \o Quickly

\* Faulty variant of Splits: quotes do not protect whitespace.
SplitsInQuotes(r, inQuote) == IsSpace(r)

\* case unicode.IsSpace(r) && !inQuote: the rune ends the current token.
Splits(r, inQuote) == IsSpace(r) /\ ~inQuote

\* The loop of tokenize from rune i on, and the flush after it.
RECURSIVE tokenizeFrom(_, _, _, _, _)
tokenizeFrom(query, i, tokens, current, inQuote) ==
    IF i > Len(query)
    THEN IF Len(current) > 0 THEN Append(tokens, current) ELSE tokens
    ELSE IF query[i] = "\""
         THEN tokenizeFrom(query, i + 1, tokens, Append(current, query[i]),
                           ~inQuote)
    ELSE IF Splits(query[i], inQuote)
         THEN tokenizeFrom(query, i + 1,
                           IF Len(current) > 0 THEN Append(tokens, current)
                           ELSE tokens,
                           <<>>, inQuote)
    ELSE tokenizeFrom(query, i + 1, tokens, Append(current, query[i]), inQuote)

\* tokenize splits a query string respecting quoted phrases.
tokenize(query) == tokenizeFrom(query, 1, <<>>, <<>>, FALSE)

\* The recognized field names, spelled out.
Str_model == <<"m", "o", "d", "e", "l">>
Str_branch == <<"b", "r", "a", "n", "c", "h">>
Str_project == <<"p", "r", "o", "j", "e", "c", "t">>
Str_type == <<"t", "y", "p", "e">>
Str_tool == <<"t", "o", "o", "l">>
Str_tokens == <<"t", "o", "k", "e", "n", "s">>
Str_age == <<"a", "g", "e">>

\* strings.ToLower, for the upper-case letters the queries use.
Lower(c) == IF c = "M" THEN "m" ELSE IF c = "T" THEN "t" ELSE c
ToLower(str) == [i \in 1..Len(str) |-> Lower(str[i])]

\* strings.Index(token, ":"): the offset (from 0) of the first colon, or -1.
Index(token, c) ==
    IF \E i \in 1..Len(token) : token[i] = c
    THEN (CHOOSE i \in 1..Len(token) :
             token[i] = c /\ \A j \in 1..(i - 1) : token[j] # c) - 1
    ELSE -1

\* strings.HasPrefix(value, c) for a one-character prefix.
HasPrefix(value, c) == Len(value) > 0 /\ value[1] = c

\* A filter (Filter{Field, Op, Value}) and the result of a failed parse.
Filter(field, op, value) == [Field |-> field, Op |-> op, Value |-> value]
NoFilter == [ok |-> FALSE, f |-> Filter("", "", <<>>)]

\* Faulty variant of FieldOf: the field name is compared as it was typed.
FieldOfExact(field) ==
    IF field = Str_model THEN "FilterModel"
    ELSE IF field = Str_branch THEN "FilterBranch"
    ELSE IF field = Str_project THEN "FilterProject"
    ELSE IF field = Str_type THEN "FilterType"
    ELSE IF field = Str_tool THEN "FilterTool"
    ELSE IF field = Str_tokens THEN "FilterTokens"
    ELSE IF field = Str_age THEN "FilterAge"
    ELSE ""

\* The switch of parseFilter on strings.ToLower(token[:idx]): the field, or
\* "" for the default case.
FieldOf(field) == FieldOfExact(ToLower(field))

\* parseFilter attempts to parse a token as field:value or field:>value.
parseFilter(token) ==
    LET idx   == Index(token, ":")
        field == SubSeq(token, 1, idx)
        value == SubSeq(token, idx + 2, Len(token))
    IN IF idx < 1 \/ idx = Len(token) - 1 THEN NoFilter
       ELSE IF FieldOf(field) = "" THEN NoFilter
       ELSE IF HasPrefix(value, ">")
            THEN [ok |-> TRUE,
                  f |-> Filter(FieldOf(field), "OpGreaterThan", Tail(value))]
       ELSE IF HasPrefix(value, "<")
            THEN [ok |-> TRUE,
                  f |-> Filter(FieldOf(field), "OpLessThan", Tail(value))]
       ELSE [ok |-> TRUE, f |-> Filter(FieldOf(field), "OpEquals", value)]

\* strings.Join for strings that are sequences of characters.
RECURSIVE JoinChars(_, _)
JoinChars(parts, sep) ==
    IF parts = <<>> THEN <<>>
    ELSE IF Len(parts) = 1 THEN parts[1]
    ELSE parts[1] \o sep \o JoinChars(Tail(parts), sep)

\* The loop of Parse over the tokens: the filters and the free words.
RECURSIVE ParseTokens(_, _, _)
ParseTokens(tokens, filters, freeWords) ==
    IF tokens = <<>> THEN [Filters |-> filters, freeWords |-> freeWords]
    ELSE IF parseFilter(Head(tokens)).ok
         THEN ParseTokens(Tail(tokens),
                          Append(filters, parseFilter(Head(tokens)).f),
                          freeWords)
    ELSE ParseTokens(Tail(tokens), filters, Append(freeWords, Head(tokens)))

\* Parse parses a query string into free-text search terms and structured
\* filters (FilterSet).
Parse(query) ==
    LET r == ParseTokens(tokenize(query), <<>>, <<>>)
    IN [FreeText |-> JoinChars(r.freeWords, <<" ">>), Filters |-> r.Filters]

HasFTS(fset) == fset.FreeText # <<>>
IsEmpty(fset) == fset.FreeText = <<>> /\ Len(fset.Filters) = 0

\* The value of a decimal digit, and of a string of digits.
IsDigit(c) == c \in {"0", "1", "2", "3", "4", "5", "6", "7", "8", "9"}
DigitVal(c) ==
    CASE c = "0" -> 0 [] c = "1" -> 1 [] c = "2" -> 2 [] c = "3" -> 3
      [] c = "4" -> 4 [] c = "5" -> 5 [] c = "6" -> 6 [] c = "7" -> 7
      [] c = "8" -> 8 [] c = "9" -> 9

RECURSIVE Number(_)
Number(digits) ==
    IF digits = <<>> THEN 0
    ELSE Number(SubSeq(digits, 1, Len(digits) - 1)) * 10
             + DigitVal(digits[Len(digits)])

\* strconv.Atoi: an optional sign and decimal digits, nothing else.
Atoi(str) ==
    LET digits == IF HasPrefix(str, "-") \/ HasPrefix(str, "+")
                  THEN Tail(str) ELSE str
    IN IF digits = <<>> \/ \E i \in 1..Len(digits) : ~IsDigit(digits[i])
       THEN [ok |-> FALSE, n |-> 0]
       ELSE [ok |-> TRUE,
             n  |-> IF HasPrefix(str, "-") THEN 0 - Number(digits)
                    ELSE Number(digits)]

\* fmt.Sscanf(value, "%d", &threshold) on a threshold of 0: the integer the
\* value starts with is stored; when it starts with none the threshold
\* stays 0, the error being dropped.
Sscanf(value) ==
    LET digits == IF HasPrefix(value, "-") \/ HasPrefix(value, "+")
                  THEN Tail(value) ELSE value
        n == IF \E i \in 1..Len(digits) : ~IsDigit(digits[i])
             THEN (CHOOSE i \in 1..Len(digits) :
                      ~IsDigit(digits[i])
                      /\ \A j \in 1..(i - 1) : IsDigit(digits[j])) - 1
             ELSE Len(digits)
    IN IF n = 0 THEN 0
       ELSE IF HasPrefix(value, "-") THEN 0 - Number(SubSeq(digits, 1, n))
       ELSE Number(SubSeq(digits, 1, n))

\* parseAge parses a duration like "1h", "30m", "7d", "2w" (in minutes).
parseAge(str) ==
    LET unit == str[Len(str)]
        num  == Atoi(SubSeq(str, 1, Len(str) - 1))
    IN IF Len(str) < 2 THEN [ok |-> FALSE, dur |-> 0]
       ELSE IF ~num.ok THEN [ok |-> FALSE, dur |-> 0]
       ELSE IF unit = "m" THEN [ok |-> TRUE, dur |-> num.n]
       ELSE IF unit = "h" THEN [ok |-> TRUE, dur |-> num.n * 60]
       ELSE IF unit = "d" THEN [ok |-> TRUE, dur |-> num.n * 24 * 60]
       ELSE IF unit = "w" THEN [ok |-> TRUE, dur |-> num.n * 7 * 24 * 60]
       ELSE [ok |-> FALSE, dur |-> 0]

\* time.Now(), in minutes.
Now == 20000

\* A condition of a WHERE clause with its parameter, a string or a number;
\* NoCond is the empty condition "".
Cond(sql, text, num) == [sql |-> sql, text |-> text, num |-> num]
NoCond == Cond("", <<>>, 0)

\* strings.ReplaceAll(value, "*", "%")
Globbed(value) == [i \in 1..Len(value) |-> IF value[i] = "*" THEN "%" ELSE value[i]]

\* Faulty variant of TokensCond: the comparisons are not strict.
TokensCondLoose(op, n) ==
    IF op = "OpGreaterThan"
    THEN Cond("(m.input_tokens + m.output_tokens) >= ?", <<>>, n)
    ELSE IF op = "OpLessThan"
    THEN Cond("(m.input_tokens + m.output_tokens) <= ?", <<>>, n)
    ELSE Cond("(m.input_tokens + m.output_tokens) = ?", <<>>, n)

\* The condition of a tokens filter whose value is the integer n.
TokensCond(op, n) ==
    IF op = "OpGreaterThan"
    THEN Cond("(m.input_tokens + m.output_tokens) > ?", <<>>, n)
    ELSE IF op = "OpLessThan"
    THEN Cond("(m.input_tokens + m.output_tokens) < ?", <<>>, n)
    ELSE Cond("(m.input_tokens + m.output_tokens) = ?", <<>>, n)

\* What filterToSQL returns for a tokens or age filter whose value does not
\* parse: return "", nil.
BadValue(f) == NoCond

filterToSQL(f) ==
    IF f.Field = "FilterModel"
    THEN Cond("s.model LIKE ?", <<"%">> \o f.Value \o <<"%">>, 0)
    ELSE IF f.Field = "FilterBranch"
    THEN IF Index(f.Value, "*") >= 0
         THEN Cond("s.git_branch LIKE ?", Globbed(f.Value), 0)
         ELSE Cond("s.git_branch = ?", f.Value, 0)
    ELSE IF f.Field = "FilterProject"
    THEN Cond("s.project LIKE ?", <<"%">> \o f.Value \o <<"%">>, 0)
    ELSE IF f.Field = "FilterType"
    THEN Cond("m.type = ?", f.Value, 0)
    ELSE IF f.Field = "FilterTool"
    THEN Cond("m.tool_calls LIKE ?", <<"%">> \o f.Value \o <<"%">>, 0)
    ELSE IF f.Field = "FilterTokens"
    THEN IF ~Atoi(f.Value).ok THEN BadValue(f)
         ELSE TokensCond(f.Op, Atoi(f.Value).n)
    ELSE IF f.Field = "FilterAge"
    THEN IF ~parseAge(f.Value).ok THEN BadValue(f)
         ELSE IF f.Op = "OpGreaterThan"
         THEN Cond("s.modified_at < ?", <<>>, Now - parseAge(f.Value).dur)
         ELSE Cond("s.modified_at > ?", <<>>, Now - parseAge(f.Value).dur)
    ELSE NoCond

\* strings.Split(input, "|")
RECURSIVE Split(_, _)
Split(str, c) ==
    IF Index(str, c) < 0 THEN <<str>>
    ELSE <<SubSeq(str, 1, Index(str, c))>>
             \o Split(SubSeq(str, Index(str, c) + 2, Len(str)), c)

\* strings.TrimSpace
RECURSIVE TrimSpace(_)
TrimSpace(str) ==
    IF str = <<>> THEN str
    ELSE IF IsSpace(str[1]) THEN TrimSpace(Tail(str))
    ELSE IF IsSpace(str[Len(str)]) THEN TrimSpace(SubSeq(str, 1, Len(str) - 1))
    ELSE str

RECURSIVE TrimmedParts(_)
TrimmedParts(parts) ==
    IF parts = <<>> THEN <<>>
    ELSE (IF TrimSpace(Head(parts)) # <<>> THEN <<TrimSpace(Head(parts))>>
          ELSE <<>>) \o TrimmedParts(Tail(parts))

\* ftsQuery converts user input into an FTS5 query string: | means OR.
ftsQuery(input) ==
    IF Index(input, "|") >= 0
    THEN JoinChars(TrimmedParts(Split(input, "|")), <<" ", "O", "R", " ">>)
    ELSE input

\* The loop of ToSQL over the filters: the conditions that are not "".
RECURSIVE FilterConds(_)
FilterConds(filters) ==
    IF filters = <<>> THEN <<>>
    ELSE (IF filterToSQL(Head(filters)).sql # ""
          THEN <<filterToSQL(Head(filters))>> ELSE <<>>)
         \o FilterConds(Tail(filters))

\* ToSQL: the conditions of the WHERE clause, to be joined by AND (none:
\* "1=1").
ToSQL(fset) ==
    (IF fset.FreeText # <<>>
     THEN <<Cond("messages_fts MATCH ?", ftsQuery(fset.FreeText), 0)>>
     ELSE <<>>) \o FilterConds(fset.Filters)

\* -------------------------------------------------- the rows queries run on
Str_user == <<"u", "s", "e", "r">>
Str_assistant == <<"a", "s", "s", "i", "s", "t", "a", "n", "t">>
Str_Read == <<"R", "e", "a", "d">>
Str_opus == <<"o", "p", "u", "s">>
Str_sonnet == <<"s", "o", "n", "n", "e", "t">>
Str_haiku == <<"h", "a", "i", "k", "u">>

\* A message with the session it belongs to: what the joins of Search read
\* and what the detail pane holds.  matched is the text engine's answer to
\* the MATCH of the query at hand.
MessageRows ==
    { [id |-> 1, sid |-> "a", type |-> Str_user, ToolCalls |-> <<>>,
       input_tokens |-> 0, output_tokens |-> 0, timestamp |-> 2,
       model |-> <<>>, project |-> <<"x">>, git_branch |-> <<"m">>,
       modified_at |-> Now - 30, matched |-> TRUE],
      [id |-> 2, sid |-> "a", type |-> Str_assistant, ToolCalls |-> <<Str_Read>>,
       input_tokens |-> 3, output_tokens |-> 1, timestamp |-> 1,
       model |-> <<"c", "-">> \o Str_opus, project |-> <<"x">>,
       git_branch |-> <<"m">>, modified_at |-> Now - 30, matched |-> FALSE],
      [id |-> 3, sid |-> "b", type |-> Str_assistant, ToolCalls |-> <<>>,
       input_tokens |-> 3, output_tokens |-> 2, timestamp |-> 3,
       model |-> <<"o">>, project |-> <<"y">>, git_branch |-> <<"m", "n">>,
       modified_at |-> Now - 3000, matched |-> TRUE],
      [id |-> 4, sid |-> "b", type |-> Str_assistant, ToolCalls |-> <<>>,
       input_tokens |-> 4, output_tokens |-> 2, timestamp |-> 3,
       model |-> <<"o">>, project |-> <<"y">>, git_branch |-> <<"m", "n">>,
       modified_at |-> Now - 3000, matched |-> TRUE] }

\* The relevance ranks the text engine may give the rows for a query.
Ranks == { [i \in 1..4 |-> 0 - i], [i \in 1..4 |-> i - 5] }

\* strings.Contains
Contains(str, sub) ==
    \E i \in 0..(Len(str) - Len(sub)) : SubSeq(str, i + 1, i + Len(sub)) = sub

\* SQL's LIKE with the wildcard %, letters compared without case.
RECURSIVE Like(_, _)
Like(text, pattern) ==
    IF pattern = <<>> THEN text = <<>>
    ELSE IF Head(pattern) = "%"
         THEN Like(text, Tail(pattern))
              \/ (text # <<>> /\ Like(Tail(text), pattern))
    ELSE /\ text # <<>>
         /\ Lower(Head(text)) = Lower(Head(pattern))
         /\ Like(Tail(text), Tail(pattern))

\* Whether row m satisfies a condition of the WHERE clause.
Holds(cond, m) ==
    IF cond.sql = "messages_fts MATCH ?" THEN m.matched
    ELSE IF cond.sql = "s.model LIKE ?" THEN Like(m.model, cond.text)
    ELSE IF cond.sql = "s.git_branch LIKE ?" THEN Like(m.git_branch, cond.text)
    ELSE IF cond.sql = "s.git_branch = ?" THEN m.git_branch = cond.text
    ELSE IF cond.sql = "s.project LIKE ?" THEN Like(m.project, cond.text)
    ELSE IF cond.sql = "s.project = ?" THEN m.project = cond.text
    ELSE IF cond.sql = "m.type = ?" THEN m.type = cond.text
    ELSE IF cond.sql = "m.tool_calls LIKE ?"
    THEN Like(JoinChars(m.ToolCalls, <<",", " ">>), cond.text)
    ELSE IF cond.sql = "(m.input_tokens + m.output_tokens) > ?"
    THEN TokenSum(m) > cond.num
    ELSE IF cond.sql = "(m.input_tokens + m.output_tokens) < ?"
    THEN TokenSum(m) < cond.num
    ELSE IF cond.sql = "(m.input_tokens + m.output_tokens) >= ?"
    THEN TokenSum(m) >= cond.num
    ELSE IF cond.sql = "(m.input_tokens + m.output_tokens) <= ?"
    THEN TokenSum(m) <= cond.num
    ELSE IF cond.sql = "(m.input_tokens + m.output_tokens) = ?"
    THEN TokenSum(m) = cond.num
    ELSE IF cond.sql = "s.modified_at > ?" THEN m.modified_at > cond.num
    ELSE IF cond.sql = "s.modified_at < ?" THEN m.modified_at < cond.num
    ELSE FALSE

\* The rows a WHERE clause of these conditions selects.
Selected(conds) ==
    {m \in MessageRows : \A i \in 1..Len(conds) : Holds(conds[i], m)}

\* FormatModel
FormatModel(model) ==
    IF Contains(model, Str_opus) THEN Str_opus
    ELSE IF Contains(model, Str_sonnet) THEN Str_sonnet
    ELSE IF Contains(model, Str_haiku) THEN Str_haiku
    ELSE model

\* The threshold messageMatchesFilters compares the token total with.
Threshold(f) == Sscanf(f.Value)

\* One turn of the loop of messageMatchesFilters: TRUE when filter f lets
\* the message through.
Passes(f, msg) ==
    IF f.Field = "FilterType" THEN msg.type = f.Value
    ELSE IF f.Field = "FilterModel"
    THEN Contains(FormatModel(msg.model), ToLower(f.Value))
    ELSE IF f.Field = "FilterTool"
    THEN \E i \in 1..Len(msg.ToolCalls) :
            ToLower(msg.ToolCalls[i]) = ToLower(f.Value)
    ELSE IF f.Field = "FilterTokens"
    THEN IF f.Op = "OpGreaterThan" THEN ~(TokenSum(msg) <= Threshold(f))
         ELSE IF f.Op = "OpLessThan" THEN ~(TokenSum(msg) >= Threshold(f))
         ELSE ~(TokenSum(msg) # Threshold(f))
    ELSE TRUE

\* messageMatchesFilters returns true if a message passes all active
\* filters.
messageMatchesFilters(filters, msg) ==
    \A i \in 1..Len(filters) : Passes(filters[i], msg)

\* The orders a result set can come in under an ORDER BY: every arrangement
\* of the rows in which no row comes after one that Before puts behind it.
Arrangements(rows) ==
    {q \in [1..Cardinality(rows) -> rows] :
        \A i, j \in 1..Cardinality(rows) : i # j => q[i] # q[j]}

ByRank(rank, rows) ==
    {q \in Arrangements(rows) :
        \A i, j \in 1..Len(q) : i < j => rank[q[i].id] <= rank[q[j].id]}

ByModifiedThenTimestamp(rows) ==
    {q \in Arrangements(rows) :
        \A i, j \in 1..Len(q) : i < j =>
            \/ q[i].modified_at > q[j].modified_at
            \/ /\ q[i].modified_at = q[j].modified_at
               /\ q[i].timestamp >= q[j].timestamp}

ByTimestamp(rows) ==
    {q \in Arrangements(rows) :
        \A i, j \in 1..Len(q) : i < j => q[i].timestamp <= q[j].timestamp}

\* The tokens queries are put together from.
TokenKinds ==
    { <<"m", "o", "d", "e", "l", ":", "o">>,
      <<"M", "o", "d", "e", "l", ":", "o">>,
      <<"f", "o", "o", ":", "o">>,
      <<":", "o">>,
      <<"m", "o", "d", "e", "l", ":">>,
      <<"o">>,
      <<"t", "y", "p", "e", ":", "u", "s", "e", "r">>,
      <<"t", "o", "o", "l", ":", "R", "e", "a", "d">>,
      <<"t", "o", "k", "e", "n", "s", ":", ">", "5">>,
      <<"t", "o", "k", "e", "n", "s", ":", "<", "5">>,
      <<"t", "o", "k", "e", "n", "s", ":", "5">>,
      <<"t", "o", "k", "e", "n", "s", ":", "x">>,
      <<"t", "o", "k", "e", "n", "s", ":", ">">>,
      <<"t", "o", "k", "e", "n", "s", ":", "<", "5", "x">>,
      <<"T", "o", "k", "e", "n", "s", ":", ">", "x">>,
      <<"a", "g", "e", ":", "<", "1", "h">>,
      <<"a", "g", "e", ":", ">", "2", "d">>,
      <<"a", "g", "e", ":", "1", "x">>,
      <<"a", "g", "e", ":", "h">>,
      <<"a", "g", "e", ":", "<", "x", "h">>,
      <<"\"", "a", " ", "o", "\"">>,
      <<"m", "o", "d", "e", "l", ":", "\"", "a", " ", "o", "\"">>,
      <<"p", "r", "o", "j", "e", "c", "t", ":", "x">>,
      <<"b", "r", "a", "n", "c", "h", ":", "m", "*">>,
      <<"b", "r", "a", "n", "c", "h", ":", "m">>,
      <<"a", "|", "o">>,
      <<"t", "o", "k", "e", "n", "s", ":", ">", "4">>,
      <<"t", "o", "k", "e", "n", "s", ":", "<", "4">>,
      <<"t", "o", "k", "e", "n", "s", ":", ">", "-", "1">>,
      <<"t", "o", "k", "e", "n", "s", ":", "<", "-", "1">> }

TokensExample ==
    <<"t", "o", "k", "e", "n", "s", ":", ">", "5", " ", "t", "o", "k", "e", "n", "s", ":", "<", "5", " ", "t", "o", "k", "e", "n", "s", ":", "5">>

\* The queries tried: every string of up to MaxQuery characters of
\* QueryChars, every sequence of up to MaxTokens of TokenKinds separated by
\* single spaces, and the examples.
Queries ==
    UNION {[1..n -> QueryChars] : n \in 0..MaxQuery}
    \cup UNION {{JoinChars(ts, <<" ">>) : ts \in [1..n -> TokenKinds]} :
                   n \in 1..MaxTokens}
    \cup {QuotedExample, TokensExample}

\* The largest LIMIT a search is given.
MaxLimit == 50

NoFilterSet == [FreeText |-> <<>>, Filters |-> <<>>]

\* A query has been typed.
InitQuery ==
    /\ fs = [p \in Paths |-> 1]
    /\ db = EmptyDB
    /\ dbLock = None
    /\ muW = None
    /\ muR = {}
    /\ pc = [p \in Procs |-> "idle"]
    /\ loc = [p \in Procs |-> Idle]
    /\ ret = NoRet
    /\ last = NoLast
    /\ ops = 0
    /\ faults = 0
    /\ pool = OpenPool
    /\ \E query \in Queries :
          calc = [stage |-> "query", query |-> query, tokens |-> <<>>,
                  fset |-> NoFilterSet, where |-> <<>>, rank |-> <<>>,
                  scope |-> None, results |-> <<>>, shown |-> {}]

\* Parse calls tokenize.
Tokenize ==
    /\ calc.stage = "query"
    /\ calc' = [calc EXCEPT !.stage = "tokens", !.tokens = tokenize(calc.query)]
    /\ UNCHANGED storeVars

\* Parse classifies the tokens and returns the FilterSet.
ParseQuery ==
    /\ calc.stage = "tokens"
    /\ calc' = [calc EXCEPT !.stage = "parsed", !.fset = Parse(calc.query)]
    /\ UNCHANGED storeVars

\* Search and SearchSessions call fs.ToSQL().
BuildWhere ==
    /\ calc.stage = "parsed"
    /\ calc' = [calc EXCEPT !.stage = "sql", !.where = ToSQL(calc.fset)]
    /\ UNCHANGED storeVars

\* Faulty variant of OrderBy: the most recent first, whatever the query.
OrderByRecency(fset, rank, rows) == ByModifiedThenTimestamp(rows)

\* The ORDER BY of Search: "rank" when the query has free text, otherwise
\* "s.modified_at DESC, m.timestamp DESC".
OrderBy(fset, rank, rows) ==
    IF HasFTS(fset) THEN ByRank(rank, rows) ELSE ByModifiedThenTimestamp(rows)

\* The results the search view keeps: all of them in the global scope, those
\* of the selected project in the project scope.
RECURSIVE InScope(_, _, _)
InScope(results, scope, projectName) ==
    IF results = <<>> THEN <<>>
    ELSE (IF scope = "global" \/ Head(results).project = projectName
          THEN <<Head(results)>> ELSE <<>>)
         \o InScope(Tail(results), scope, projectName)

\* Search runs its SELECT (nil for an empty FilterSet): the rows the WHERE
\* clause selects, in the order of its ORDER BY, cut at LIMIT; the search
\* view then keeps the results in scope.
Search ==
    /\ calc.stage = "sql"
    /\ \E rank \in Ranks, limit \in {2, MaxLimit}, scope \in {"global", "project"} :
         \E q \in (IF IsEmpty(calc.fset) THEN {<<>>}
                   ELSE OrderBy(calc.fset, rank, Selected(calc.where))) :
            calc' = [calc EXCEPT !.stage = "results", !.rank = rank,
                                 !.scope = scope,
                                 !.results = InScope(SubSeq(q, 1, Min(limit, Len(q))),
                                                     scope, <<"x">>)]
    /\ UNCHANGED storeVars

\* The sessions of a set of rows, most recently modified first.
SessionsOf(rows) ==
    LET sids == {m.sid : m \in rows}
        mod(sid) == (CHOOSE m \in rows : m.sid = sid).modified_at
    IN {q \in [1..Cardinality(sids) -> sids] :
          /\ \A i, j \in 1..Cardinality(sids) : i # j => q[i] # q[j]
          /\ \A i, j \in 1..Cardinality(sids) : i < j => mod(q[i]) >= mod(q[j])}

\* SearchSessions runs its SELECT DISTINCT for a project (or for all, ""):
\* the project is one more condition unless the query has a project filter.
SearchSessions(project) ==
    /\ calc.stage = "sql"
    /\ LET scoped ==
             IF /\ project # <<>>
                /\ \A i \in 1..Len(calc.fset.Filters) :
                      calc.fset.Filters[i].Field # "FilterProject"
             THEN Append(calc.where, Cond("s.project = ?", project, 0))
             ELSE calc.where
       IN \E q \in (IF IsEmpty(calc.fset) THEN {<<>>}
                    ELSE SessionsOf(Selected(scoped))) :
             calc' = [calc EXCEPT !.stage = "sessions", !.results = q]
    /\ UNCHANGED storeVars

\* SearchInSession runs the query as typed against one session's messages.
SearchWithin(sessionID) ==
    /\ calc.stage = "query"
    /\ \E rank \in Ranks :
         \E q \in (IF calc.query = <<>> THEN {<<>>}
                   ELSE ByTimestamp({m \in MessageRows :
                                       m.sid = sessionID /\ m.matched})) :
            calc' = [calc EXCEPT !.stage = "session", !.rank = rank,
                                 !.scope = "local", !.results = q]
    /\ UNCHANGED storeVars

\* DetailPane.SetFilters: the messages renderLines still shows.
SetFilters ==
    /\ calc.stage = "parsed"
    /\ calc' = [calc EXCEPT
                  !.stage = "shown",
                  !.shown = {m \in MessageRows :
                                messageMatchesFilters(calc.fset.Filters, m)}]
    /\ UNCHANGED storeVars

NextQuery ==
    \/ Tokenize
    \/ ParseQuery
    \/ BuildWhere
    \/ Search
    \/ \E project \in {<<>>, <<"x">>} : SearchSessions(project)
    \/ \E sessionID \in {"a", "b"} : SearchWithin(sessionID)
    \/ SetFilters

SpecQuery == InitQuery /\ [][NextQuery]_vars

\* Position i of the query is whitespace outside double quotes: an even
\* number of quote characters comes before it.
Outside(q, i) ==
    /\ IsSpace(q[i])
    /\ Cardinality({j \in 1..(i - 1) : q[j] = "\""}) % 2 = 0

\* The stretches of the query between such positions, longest possible and
\* not empty.
Stretches(q) ==
    {<<a, b>> \in (1..Len(q)) \X (1..Len(q)) :
        /\ a <= b
        /\ \A i \in a..b : ~Outside(q, i)
        /\ a = 1 \/ Outside(q, a - 1)
        /\ b = Len(q) \/ Outside(q, b + 1)}

\* C26: tokenize splits a query at whitespace outside double quotes and
\* nowhere else: the tokens are the stretches between such whitespace, in
\* input order, none empty, quote characters kept, whitespace inside quotes
\* kept; the quoted example yields exactly its two tokens.
C26_TokenizeSplitsOutsideQuotes ==
    calc.stage = "tokens" =>
        /\ Len(calc.tokens) = Cardinality(Stretches(calc.query))
        /\ \A k \in 1..Len(calc.tokens) :
              \E st \in Stretches(calc.query) :
                 /\ calc.tokens[k] = SubSeq(calc.query, st[1], st[2])
                 /\ Cardinality({o \in Stretches(calc.query) : o[1] < st[1]})
                       = k - 1
        /\ calc.query = QuotedExample => calc.tokens = <<QuotedPhrase, Quickly>>

\* The quoted example has been split into its two tokens.
C26_Witness ==
    /\ calc.stage = "tokens"
    /\ calc.query = QuotedExample
    /\ Len(calc.tokens) = 2
    /\ calc.tokens[1] = QuotedPhrase

\* The recognized field set, and the name each Filter field is written with.
FieldNames == {Str_model, Str_branch, Str_project, Str_type, Str_tool,
               Str_tokens, Str_age}
Spelling(field) ==
    CASE field = "FilterModel" -> Str_model
      [] field = "FilterBranch" -> Str_branch
      [] field = "FilterProject" -> Str_project
      [] field = "FilterType" -> Str_type
      [] field = "FilterTool" -> Str_tool
      [] field = "FilterTokens" -> Str_tokens
      [] field = "FilterAge" -> Str_age

\* Token t has the form field:value, field and value not empty, with the
\* field as typed in the recognized set; the same with the field taken
\* without regard to case.
FieldPart(t) == SubSeq(t, 1, Index(t, ":"))
ValuePart(t) == SubSeq(t, Index(t, ":") + 2, Len(t))
StructuredAsTyped(t) ==
    /\ Index(t, ":") >= 0
    /\ FieldPart(t) # <<>> /\ ValuePart(t) # <<>>
    /\ FieldPart(t) \in FieldNames
FreeAsTyped(t) == ~StructuredAsTyped(t)
Structured(t) ==
    /\ Index(t, ":") >= 0
    /\ FieldPart(t) # <<>> /\ ValuePart(t) # <<>>
    /\ ToLower(FieldPart(t)) \in FieldNames
Free(t) == ~Structured(t)

\* The value of filter f is the value part of token t, less the operator
\* it starts with.
ValueOf(f, t) ==
    \/ f.Value = ValuePart(t)
    \/ ValuePart(t)[1] \in {">", "<"} /\ f.Value = Tail(ValuePart(t))

\* C27 as stated: a token is a structured filter if and only if it has the
\* form field:value with non-empty field and value and field in {model,
\* branch, project, type, tool, tokens, age}; FreeText is the other tokens
\* joined by single spaces in their order, Filters the structured tokens in
\* their order.
C27_ParseClassifiesAsTyped ==
    calc.stage = "parsed" =>
        LET st == SelectSeq(calc.tokens, StructuredAsTyped)
        IN /\ calc.fset.FreeText
                 = JoinChars(SelectSeq(calc.tokens, FreeAsTyped), <<" ">>)
           /\ Len(calc.fset.Filters) = Len(st)
           /\ \A k \in 1..Len(st) :
                 /\ Spelling(calc.fset.Filters[k].Field) = FieldPart(st[k])
                 /\ ValueOf(calc.fset.Filters[k], st[k])

\* C27, amended: the same with the field name compared without regard to
\* case (Model:opus is a model filter).
C27_ParseClassifies ==
    calc.stage = "parsed" =>
        LET st == SelectSeq(calc.tokens, Structured)
        IN /\ calc.fset.FreeText
                 = JoinChars(SelectSeq(calc.tokens, Free), <<" ">>)
           /\ Len(calc.fset.Filters) = Len(st)
           /\ \A k \in 1..Len(st) :
                 /\ Spelling(calc.fset.Filters[k].Field)
                       = ToLower(FieldPart(st[k]))
                 /\ ValueOf(calc.fset.Filters[k], st[k])

\* foo:o followed by Model:o: the first is free text, the second a filter.
C27_Witness ==
    /\ calc.stage = "parsed"
    /\ calc.tokens = <<<<"f", "o", "o", ":", "o">>, <<"M", "o", "d", "e", "l", ":", "o">>>>
    /\ calc.fset.FreeText = <<"f", "o", "o", ":", "o">>
    /\ calc.fset.Filters = <<Filter("FilterModel", "OpEquals", <<"o">>)>>

\* The query is made of tokens filters with integer values only: the WHERE
\* clause has one condition per filter.
TokensOnly ==
    /\ calc.fset.FreeText = <<>>
    /\ \A i \in 1..Len(calc.fset.Filters) :
          /\ calc.fset.Filters[i].Field = "FilterTokens"
          /\ Atoi(calc.fset.Filters[i].Value).ok

\* C28: for every integer N and every stored message with token sum t =
\* input_tokens + output_tokens: when t differs from N the message satisfies
\* exactly one of tokens:>N and tokens:<N, when t equals N it satisfies
\* neither of them and satisfies tokens:N.
C28_TokensFiltersPartition ==
    (calc.stage = "sql" /\ TokensOnly) =>
        \A i, j \in 1..Len(calc.fset.Filters) :
            LET f == calc.fset.Filters[i]
                g == calc.fset.Filters[j]
                N == Atoi(f.Value).n
            IN (/\ f.Op = "OpGreaterThan" /\ g.Op = "OpLessThan"
                /\ Atoi(g.Value).n = N) =>
                 \A m \in MessageRows :
                    /\ TokenSum(m) # N =>
                          (Holds(calc.where[i], m) # Holds(calc.where[j], m))
                    /\ TokenSum(m) = N =>
                          /\ ~Holds(calc.where[i], m)
                          /\ ~Holds(calc.where[j], m)
                          /\ \A k \in 1..Len(calc.fset.Filters) :
                                (/\ calc.fset.Filters[k].Op = "OpEquals"
                                 /\ Atoi(calc.fset.Filters[k].Value).n = N)
                                   => Holds(calc.where[k], m)

\* tokens:>5 tokens:<5 tokens:5 has its three conditions; a row with token
\* sum 6 satisfies the first only, one with sum 5 the third only.
C28_Witness ==
    /\ calc.stage = "sql"
    /\ calc.query = TokensExample
    /\ Len(calc.where) = 3
    /\ \E m \in MessageRows :
          /\ TokenSum(m) = 6
          /\ Holds(calc.where[1], m) /\ ~Holds(calc.where[2], m)
    /\ \E m \in MessageRows :
          /\ TokenSum(m) = 5
          /\ Holds(calc.where[3], m) /\ ~Holds(calc.where[1], m)

\* The value of filter f is well formed: an integer for tokens, <N><m|h|d|w>
\* for age; the other fields take any value.
AllDigits(str) == str # <<>> /\ \A i \in 1..Len(str) : IsDigit(str[i])
IsInteger(str) ==
    AllDigits(IF HasPrefix(str, "-") \/ HasPrefix(str, "+") THEN Tail(str)
              ELSE str)
WellFormed(f) ==
    IF f.Field = "FilterTokens" THEN IsInteger(f.Value)
    ELSE IF f.Field = "FilterAge"
    THEN /\ Len(f.Value) >= 2
         /\ f.Value[Len(f.Value)] \in {"m", "h", "d", "w"}
         /\ IsInteger(SubSeq(f.Value, 1, Len(f.Value) - 1))
    ELSE TRUE

\* C29: a filter whose value is malformed contributes no predicate wherever
\* filters are applied: ToSQL emits no condition for it and keeps the
\* conditions of all other tokens in order, and messageMatchesFilters of the
\* detail pane rejects no message because of it.
C29_MalformedValueIgnored ==
    LET sound == SelectSeq(calc.fset.Filters, WellFormed)
    IN /\ calc.stage = "sql" =>
             calc.where = ToSQL([calc.fset EXCEPT !.Filters = sound])
       /\ calc.stage = "shown" =>
             calc.shown = {m \in MessageRows : messageMatchesFilters(sound, m)}

\* The results come by relevance rank; the most recently modified session
\* first and, within a session, the latest message first; the earliest
\* message first.
RankOrdered(results, rank) ==
    \A i, j \in 1..Len(results) :
        i < j => rank[results[i].id] <= rank[results[j].id]
RecencyOrdered(results) ==
    \A i, j \in 1..Len(results) : i < j =>
        \/ results[i].modified_at > results[j].modified_at
        \/ /\ results[i].modified_at = results[j].modified_at
           /\ results[i].timestamp >= results[j].timestamp
Chronological(results) ==
    \A i, j \in 1..Len(results) :
        i < j => results[i].timestamp <= results[j].timestamp

\* C30 as stated: query results are ordered by the text engine's relevance
\* rank whenever the query contains free text, in every scope (global,
\* project and single-session), and otherwise by session modified time
\* descending, then message timestamp descending.
C30_RankOrderInEveryScope ==
    calc.stage \in {"results", "session"} =>
        IF HasFTS(Parse(calc.query))
        THEN RankOrdered(calc.results, calc.rank)
        ELSE RecencyOrdered(calc.results)

\* C30, amended: so it is in the global and the project scope; the results
\* of a single-session search come in the order of their timestamps,
\* earliest first.
C30_ResultOrder ==
    /\ calc.stage = "results" =>
          IF HasFTS(Parse(calc.query))
          THEN RankOrdered(calc.results, calc.rank)
          ELSE RecencyOrdered(calc.results)
    /\ calc.stage = "session" => Chronological(calc.results)

\* A free-text search returned three results, the best-ranked first although
\* its session was modified before that of the last.
C30_Witness ==
    /\ calc.stage = "results"
    /\ calc.scope = "global"
    /\ HasFTS(calc.fset)
    /\ Len(calc.results) = 3
    /\ calc.rank[calc.results[1].id] < calc.rank[calc.results[3].id]
    /\ calc.results[1].modified_at < calc.results[3].modified_at

\* ------------------------------------------------------ claims C31 to C40
\* --------------------------------------------- Store.compiledRegex, alone
\* Calls of compiledRegex every goroutine makes in one behaviour.
MaxCalls == 2

\* A *regexp.Regexp is followed as the number of the regexp.Compile call
\* that made it; NilRegexp is the nil pointer.
NilRegexp == 0

\* The goroutines calling compiledRegex, the cache empty and its lock free:
\* the state Open leaves.
InitCache ==
    /\ fs = [p \in Paths |-> 1]
    /\ db = EmptyDB
    /\ dbLock = None
    /\ muW = None
    /\ muR = {}
    /\ pc = [p \in Procs |-> "idle"]
    /\ loc = [p \in Procs |-> Idle]
    /\ ret = NoRet
    /\ last = NoLast
    /\ ops = 0
    /\ faults = 0
    /\ pool = OpenPool
    /\ calc = [stage     |-> "cache",
               reCache   |-> [pattern \in Patterns |-> NilRegexp],
               reCacheMu |-> [w |-> None, r |-> {}],
               at        |-> [g \in Clients |-> "idle"],
               pattern   |-> [g \in Clients |-> None],
               re        |-> [g \in Clients |-> NilRegexp],
               calls     |-> [g \in Clients |-> 0],
               compiled  |-> 0,
               returned  |-> {}]

\* compiledRegex returns re to goroutine g.
CacheReturn(g, re) ==
    [calc EXCEPT !.at[g] = "idle", !.re[g] = NilRegexp, !.pattern[g] = None,
                 !.returned = @ \cup {[pattern |-> calc.pattern[g], re |-> re]}]

\* Goroutine g calls s.compiledRegex(pattern).
CacheCall(g, pattern) ==
    /\ calc.at[g] = "idle"
    /\ calc.calls[g] < MaxCalls
    /\ calc' = [calc EXCEPT !.at[g] = "rlock", !.pattern[g] = pattern,
                            !.calls[g] = @ + 1]
    /\ UNCHANGED storeVars

\* s.reCacheMu.RLock()
CacheRLock(g) ==
    /\ calc.at[g] = "rlock"
    /\ calc.reCacheMu.w = None
    /\ calc' = [calc EXCEPT !.at[g] = "lookup", !.reCacheMu.r = @ \cup {g}]
    /\ UNCHANGED storeVars

\* The lookup under the read lock and the RUnlock of either branch: a hit
\* returns the cached instance.
CacheLookup(g) ==
    /\ calc.at[g] = "lookup"
    /\ LET hit == calc.reCache[calc.pattern[g]]
           c1  == [calc EXCEPT !.reCacheMu.r = @ \ {g}]
       IN calc' = IF hit # NilRegexp
                  THEN [CacheReturn(g, hit) EXCEPT !.reCacheMu.r = @ \ {g}]
                  ELSE [c1 EXCEPT !.at[g] = "compile"]
    /\ UNCHANGED storeVars

\* regexp.Compile(pattern), no lock held: nil is returned for a pattern that
\* does not compile, otherwise a new instance is made.
CacheCompile(g) ==
    /\ calc.at[g] = "compile"
    /\ calc' = IF compiledRegex(calc.pattern[g]) = None
               THEN CacheReturn(g, NilRegexp)
               ELSE [calc EXCEPT !.at[g] = "store", !.compiled = @ + 1,
                                 !.re[g] = calc.compiled + 1]
    /\ UNCHANGED storeVars

\* s.reCacheMu.Lock(); s.reCache[pattern] = re; s.reCacheMu.Unlock()
CacheStore(g) ==
    /\ calc.at[g] = "store"
    /\ calc.reCacheMu.w = None /\ calc.reCacheMu.r = {}
    /\ calc' = [CacheReturn(g, calc.re[g]) EXCEPT
                   !.reCache[calc.pattern[g]] = calc.re[g]]
    /\ UNCHANGED storeVars

NextCache ==
    \E g \in Clients :
        \/ \E pattern \in Patterns : CacheCall(g, pattern)
        \/ CacheRLock(g)
        \/ CacheLookup(g)
        \/ CacheCompile(g)
        \/ CacheStore(g)

SpecCache == InitCache /\ [][NextCache]_vars

\* C31: for any pattern that compiles, every call to compiledRegex with it,
\* racing calls from different goroutines included, returns the same cached
\* instance; a pattern that does not compile returns nil and is never
\* stored in the cache.
C31_OneInstancePerPattern ==
    /\ \A x, y \in calc.returned : x.pattern = y.pattern => x.re = y.re
    /\ \A x \in calc.returned :
          (x.re = NilRegexp) <=> (compiledRegex(x.pattern) = None)
    /\ \A pattern \in Patterns :
          compiledRegex(pattern) = None => calc.reCache[pattern] = NilRegexp

\* -------------------------------------- watcher.Watch and the UI loop, alone
\* Time is counted in steps of 100 ms.  Modifications of the watched log
\* files in one behaviour, and the time up to which the clock runs when no
\* timer is pending.
MaxMods == 3
MaxTime == 4

\* debounce.Reset(500 * time.Millisecond)
Debounce == 5

\* Faulty variant of ResetTimer: a running timer is left as it is.
ResetTimerOnce(deadline, now) == IF deadline = 0 THEN now + Debounce ELSE deadline

\* The deadline of the debounce timer after debounce.Reset (0: stopped).
\* The program is built with Go 1.25 or later, where Reset leaves no value
\* of an earlier expiry in the timer's channel.
ResetTimer(deadline, now) == now + Debounce

\* The program as Model.Init leaves it: the first Watch command and the
\* command of the full index pass started, neither having run yet.
InitWatch ==
    /\ fs = [p \in Paths |-> 1]
    /\ db = EmptyDB
    /\ dbLock = None
    /\ muW = None
    /\ muR = {}
    /\ pc = [p \in Procs |-> "idle"]
    /\ loc = [p \in Procs |-> Idle]
    /\ ret = NoRet
    /\ last = NoLast
    /\ ops = 0
    /\ faults = 0
    /\ pool = OpenPool
    /\ calc = [stage     |-> "watch",
               now       |-> 0,
               watcher   |-> "setup",   \* where the Watch command is
               pending   |-> 0,         \* events waiting in w.Events
               deadline  |-> 0,         \* when the debounce timer expires
               received  |-> 0,         \* events this run has received
               lastRecv  |-> 0,         \* when it received the last one
               emitted   |-> 0,         \* RefreshMsg this run has returned
               emittedAt |-> 0,
               msg       |-> FALSE,     \* a RefreshMsg waits for Update
               passes    |-> 1,         \* index commands started, not begun
               begun     |-> 0,         \* IndexChanged passes begun
               mods      |-> 0,
               dirty     |-> FALSE]     \* modified, and no pass begun since

\* 100 ms pass.  The clock is followed up to MaxTime and, beyond it, as long
\* as the debounce timer is running.
Tick ==
    /\ calc.stage = "watch"
    /\ calc.now < MaxTime \/ (calc.deadline # 0 /\ calc.now < calc.deadline)
    /\ calc' = [calc EXCEPT !.now = @ + 1]
    /\ UNCHANGED storeVars

\* The Claude process writes to a log file in a watched directory: the
\* watcher that has registered the directory is sent an event.
Modify ==
    /\ calc.stage = "watch"
    /\ calc.mods < MaxMods
    /\ calc' = [calc EXCEPT !.mods = @ + 1, !.dirty = TRUE,
                            !.pending = IF calc.watcher = "loop" THEN @ + 1
                                        ELSE @]
    /\ UNCHANGED storeVars

\* Watch up to its loop: fsnotify.NewWatcher, w.Add for the directories,
\* and the debounce timer made and stopped.
WatchSetup ==
    /\ calc.stage = "watch"
    /\ calc.watcher = "setup"
    /\ calc' = [calc EXCEPT !.watcher = "loop", !.pending = 0, !.deadline = 0,
                            !.received = 0, !.lastRecv = 0, !.emitted = 0,
                            !.emittedAt = 0]
    /\ UNCHANGED storeVars

\* case _, ok := <-w.Events: debounce.Reset(500 * time.Millisecond)
WatchEvent ==
    /\ calc.stage = "watch"
    /\ calc.watcher = "loop"
    /\ calc.pending > 0
    /\ calc' = [calc EXCEPT !.pending = @ - 1, !.received = @ + 1,
                            !.lastRecv = calc.now,
                            !.deadline = ResetTimer(@, calc.now)]
    /\ UNCHANGED storeVars

\* case <-debounce.C: return RefreshMsg{}; the events not received are
\* dropped with the watcher.
WatchFire ==
    /\ calc.stage = "watch"
    /\ calc.watcher = "loop"
    /\ calc.deadline # 0 /\ calc.now >= calc.deadline
    /\ calc' = [calc EXCEPT !.watcher = "done", !.deadline = 0, !.pending = 0,
                            !.emitted = @ + 1, !.emittedAt = calc.now,
                            !.msg = TRUE]
    /\ UNCHANGED storeVars

\* Model.Update for a watcher.RefreshMsg: tea.Batch(watcher.Watch(...),
\* m.indexChangedCmd()) starts the next Watch and an incremental pass.
UpdateRefresh ==
    /\ calc.stage = "watch"
    /\ calc.msg
    /\ calc' = [calc EXCEPT !.msg = FALSE, !.watcher = "setup",
                            !.passes = @ + 1]
    /\ UNCHANGED storeVars

\* An index command runs (indexChangedCmd, and the indexAllCmd of Init):
\* the pass over the files begins, which it finds as modified up to now.
IndexChangedBegins ==
    /\ calc.stage = "watch"
    /\ calc.passes > 0
    /\ calc' = [calc EXCEPT !.passes = @ - 1, !.begun = @ + 1,
                            !.dirty = FALSE]
    /\ UNCHANGED storeVars

NextWatch ==
    \/ Tick
    \/ Modify
    \/ WatchSetup
    \/ WatchEvent
    \/ WatchFire
    \/ UpdateRefresh
    \/ IndexChangedBegins

SpecWatch == InitWatch /\ [][NextWatch]_vars

\* The commands run in goroutines of their own and the UI loop takes every
\* message sent to it: no step of the program waits for ever while it can
\* be taken, and time passes.
SpecWatchLive ==
    /\ SpecWatch
    /\ WF_vars(Tick)
    /\ WF_vars(WatchSetup)
    /\ WF_vars(WatchEvent \/ WatchFire)
    /\ WF_vars(UpdateRefresh)
    /\ WF_vars(IndexChangedBegins)

\* C32: each run of the file watcher emits at most one RefreshMsg, and only
\* when at least one filesystem event has been received and 500 ms have
\* passed since the most recently received one; a run that has received an
\* event emits its RefreshMsg in the end (a burst gives exactly one trigger,
\* after it has ended).
C32_DebouncedRefresh ==
    /\ [](calc.emitted <= 1)
    /\ [](calc.emitted = 1 =>
            /\ calc.received >= 1
            /\ calc.emittedAt >= calc.lastRecv + Debounce)
    /\ [](calc.watcher = "loop" /\ calc.deadline # 0 => calc.received >= 1)
    /\ ((calc.watcher = "loop" /\ calc.received >= 1) ~> (calc.emitted = 1))

\* A run received a burst of two events less than 500 ms apart and returned
\* its RefreshMsg.
C32_Witness ==
    /\ calc.stage = "watch"
    /\ calc.received >= 2
    /\ calc.emitted = 1
    /\ calc.emittedAt < calc.lastRecv + 2 * Debounce

\* C38: no change is lost between watcher runs: every modification of a
\* watched log file is eventually followed by an IndexChanged pass that
\* begins after it, modifications made between the emission of a RefreshMsg
\* and the start of the next Watch included.
C38_NoChangeLost == calc.dirty ~> ~calc.dirty

\* ------------------------------------- IndexAll and its progress channel
\* Files a discovery finds, and capacity of the progress channel the caller
\* makes (indexAllCmd makes one of 16 and drains it in a goroutine).
MaxFiles == 2
MaxCap == 2

\* IndexProgress{Phase, Current, Total}; File, the base name of the file, is
\* followed as the file's number.
IndexProgress(phase, current, total, file) ==
    [Phase |-> phase, Current |-> current, Total |-> total, File |-> file]

\* Faulty variant of FileProgress: the files are counted from 0.
FileProgressFromZero(i, total) == IndexProgress("indexing", i, total, i + 1)

\* The event IndexAll sends before it indexes files[i], i counted from 0.
FileProgress(i, total) == IndexProgress("indexing", i + 1, total, i + 1)

\* IndexAll is called with a channel of some capacity; what the discovery
\* will find is fixed by the file system.
InitProgress ==
    /\ fs = [p \in Paths |-> 1]
    /\ db = EmptyDB
    /\ dbLock = None
    /\ muW = None
    /\ muR = {}
    /\ pc = [p \in Procs |-> "idle"]
    /\ loc = [p \in Procs |-> Idle]
    /\ ret = NoRet
    /\ last = NoLast
    /\ ops = 0
    /\ faults = 0
    /\ pool = OpenPool
    /\ \E cap \in 1..MaxCap, found \in 0..MaxFiles, fails \in BOOLEAN :
          calc = [stage    |-> "progress",
                  at       |-> "start",
                  cap      |-> cap,
                  found    |-> found,     \* files the discovery finds
                  fails    |-> fails,     \* DiscoverProjects returns an error
                  total    |-> 0,         \* len(files)
                  i        |-> 0,         \* the loop's index
                  indexed  |-> {},        \* numbers of the files indexFile ran on
                  progress |-> <<>>,      \* the channel's buffer
                  sent     |-> <<>>,      \* everything sent, in order
                  early    |-> FALSE,     \* a file was indexed before its event
                  closed   |-> 0,         \* close(progress) calls
                  sentAtClose |-> 0,
                  got      |-> 0]         \* events the caller received

\* progress <- ev, which waits while the channel's buffer is full.
CanSend == Len(calc.progress) < calc.cap
Send(c, ev) == [c EXCEPT !.progress = Append(@, ev), !.sent = Append(@, ev)]

\* progress <- IndexProgress{Phase: "discovering"}
SendDiscovering ==
    /\ calc.stage = "progress" /\ calc.at = "start"
    /\ CanSend
    /\ calc' = Send([calc EXCEPT !.at = "discover"],
                    IndexProgress("discovering", 0, 0, 0))
    /\ UNCHANGED storeVars

\* claude.DiscoverProjects and the collection of the files; on an error
\* IndexAll returns it.
Discover ==
    /\ calc.stage = "progress" /\ calc.at = "discover"
    /\ calc' = IF calc.fails THEN [calc EXCEPT !.at = "return"]
               ELSE [calc EXCEPT !.at = "announce", !.total = calc.found]
    /\ UNCHANGED storeVars

\* progress <- IndexProgress{Phase: "indexing", Total: len(files)}
SendTotal ==
    /\ calc.stage = "progress" /\ calc.at = "announce"
    /\ CanSend
    /\ calc' = Send([calc EXCEPT !.at = "loop"],
                    IndexProgress("indexing", 0, calc.total, 0))
    /\ UNCHANGED storeVars

\* The head of the loop: the event of files[i] is sent; after the last file
\* MatchNewMessages runs over the IDs collected.
SendFile ==
    /\ calc.stage = "progress" /\ calc.at = "loop"
    /\ IF calc.i < calc.total
       THEN /\ CanSend
            /\ calc' = Send([calc EXCEPT !.at = "index"],
                            FileProgress(calc.i, calc.total))
       ELSE calc' = [calc EXCEPT !.at = "done"]
    /\ UNCHANGED storeVars

\* s.indexFile(f.path, f.project), whose error makes the loop continue.
IndexOne ==
    /\ calc.stage = "progress" /\ calc.at = "index"
    /\ calc' = [calc EXCEPT
                   !.at = "loop", !.i = @ + 1,
                   !.indexed = @ \cup {calc.i + 1},
                   !.early = @ \/ \A k \in 1..Len(calc.sent) :
                                     calc.sent[k].File # calc.i + 1]
    /\ UNCHANGED storeVars

\* progress <- IndexProgress{Phase: "done", Current: len(files), Total: len(files)}
SendDone ==
    /\ calc.stage = "progress" /\ calc.at = "done"
    /\ CanSend
    /\ calc' = Send([calc EXCEPT !.at = "return"],
                    IndexProgress("done", calc.total, calc.total, 0))
    /\ UNCHANGED storeVars

\* IndexAll returns: the deferred close(progress) runs.
CloseProgress ==
    /\ calc.stage = "progress" /\ calc.at = "return"
    /\ calc' = [calc EXCEPT !.at = "returned", !.closed = @ + 1,
                            !.sentAtClose = Len(calc.sent)]
    /\ UNCHANGED storeVars

\* The caller's goroutine takes an event off the channel (for range progress).
Drain ==
    /\ calc.stage = "progress"
    /\ calc.progress # <<>>
    /\ calc' = [calc EXCEPT !.progress = Tail(@), !.got = @ + 1]
    /\ UNCHANGED storeVars

NextProgress ==
    \/ SendDiscovering
    \/ Discover
    \/ SendTotal
    \/ SendFile
    \/ IndexOne
    \/ SendDone
    \/ CloseProgress
    \/ Drain

SpecProgress == InitProgress /\ [][NextProgress]_vars

\* The events of a whole run over `total` files, in the order stated.
ProgressOrder(total) ==
    << IndexProgress("discovering", 0, 0, 0),
       IndexProgress("indexing", 0, total, 0) >>
    \o [i \in 1..total |-> IndexProgress("indexing", i, total, i)]
    \o << IndexProgress("done", total, total, 0) >>

IsPrefix(a, b) == Len(a) <= Len(b) /\ a = SubSeq(b, 1, Len(a))

\* C33: IndexAll sends one 'discovering' event, one 'indexing' event with
\* Total, for each file i = 1..Total an 'indexing' event with Current = i
\* before that file is replaced, then one 'done' event with Current = Total;
\* it closes the channel exactly once, after its last send, on every return
\* path, that of a failed discovery included.
C33_ProgressOrder ==
    calc.stage = "progress" =>
        /\ IsPrefix(calc.sent, ProgressOrder(calc.found))
        /\ ~calc.early
        /\ calc.closed <= 1
        /\ calc.closed = 1 => calc.sentAtClose = Len(calc.sent)
        /\ calc.at = "returned" =>
              /\ calc.closed = 1
              /\ calc.sent = IF calc.fails
                             THEN <<IndexProgress("discovering", 0, 0, 0)>>
                             ELSE ProgressOrder(calc.found)

\* IndexAll returned after two files, its five events sent and the channel
\* closed.
C33_Witness ==
    /\ calc.stage = "progress"
    /\ calc.at = "returned"
    /\ calc.closed = 1
    /\ calc.total = 2
    /\ Len(calc.sent) = 5
    /\ calc.indexed = {1, 2}

\* ------------------------------------------------------------ C34 to C37
\* Goroutine p holds Store.mu, as writer or as reader.
HoldsMu(p) == muW = p \/ p \in muR

\* Goroutine p is about to take Store.mu: at the call of an operation, at
\* s.mu.Lock() in matchAllForWatch, at s.mu.RLock() in ListWatches.
TakesMu(p) == pc[p] \in {"idle", "bf_start", "mnm_list"}

\* C34: no store operation takes the store lock while its goroutine holds
\* it already, and every operation of a finite set issued concurrently
\* completes.
C34_NoDeadlock ==
    /\ [](\A p \in Procs : TakesMu(p) => ~HoldsMu(p))
    /\ \A p \in Procs : (pc[p] # "idle") ~> (pc[p] = "idle")

\* A backfill waits for the store lock, which another goroutine's Reset or
\* IndexChanged holds.
C34_Witness ==
    \E p, q \in Procs : /\ p # q
                        /\ pc[p] = "bf_start"
                        /\ muW = q

\* C35: in every committed state each match row references an existing
\* subscription and an existing message.
C35_NoOrphanMatch ==
    \A m \in db.matches :
        /\ \E w \in db.watchlist : w.id = m.wid
        /\ \E x \in db.messages : x.id = m.mid

\* An IndexAll was the first operation on the store, it has returned, and
\* no log file was written: the pass ran alone over unchanged files.
FirstPassDone ==
    /\ ret.op = "IndexAll" /\ ops = 1
    /\ \A p \in Procs : pc[p] = "idle"
    /\ fs = [path \in Paths |-> 1]

\* The store the pass began with: the one of the initial stores that holds
\* the subscriptions now stored (IndexAll writes no watchlist row).
StoreBefore(d) ==
    CHOOSE s \in InitialDBs \cup {PausedDB} :
        s.watchlist = d.watchlist /\ (d.watchlist = {} => s = IndexedDB)

MatchCount(d, wid) == Cardinality({m \in d.matches : m.wid = wid})

\* C36: an IndexAll over unchanged files leaves every subscription with the
\* number of matches and the unseen count it had before the pass (so the
\* number of seen matches is kept too).
C36_PassKeepsWatchState ==
    FirstPassDone =>
        \A w \in db.watchlist :
            /\ MatchCount(db, w.id) = MatchCount(StoreBefore(db), w.id)
            /\ UnseenCount(db, w.id) = UnseenCount(StoreBefore(db), w.id)

\* Subscription w has a match row for every stored message its pattern
\* matches.
Covered(d, w) ==
    \A m \in MatchingRows(w, d.messages) :
        \E x \in d.matches : x.wid = w.id /\ x.mid = m.id

\* C37: whenever nothing is in flight, every enabled subscription has a match
\* row for every stored message whose text matches its pattern.
C37_EnabledCovered ==
    Quiescent => \A w \in db.watchlist : w.enabled => Covered(db, w)

\* ------------------------------------------------ the session list of the UI
\* The projects on disk and their sessions, as DiscoverProjects and
\* LoadSessions list them.
UiProjects == <<"p", "q">>
ProjectSessions(name) == IF name = "p" THEN <<"a", "b", "c">> ELSE <<"d">>
ProjectOf(sid) == IF sid = "d" THEN "q" ELSE "p"

\* What can stand in the search input, and for each query the sessions
\* with a stored message it matches (the store's order) and the sessions
\* whose first prompt contains it.
UiQueries == {"", "x", "y", "z"}
Hits(query) ==
    IF query = "x" THEN <<"c", "d">>
    ELSE IF query = "y" THEN <<"b", "c">>
    ELSE <<>>
PromptHas(sid, query) == query = "" \/ (query = "x" /\ sid = "a")

\* Model after New: nothing loaded yet, the search overlay closed with
\* scope PROJECT, the focus on the project pane.
InitUI ==
    /\ calc = [stage |-> "ui", loaded |-> FALSE, project |-> 0,
               allSessions |-> <<>>, sessions |-> <<>>, cursor |-> 0,
               active |-> FALSE, value |-> "", scope |-> "project",
               results |-> <<>>, resultIdx |-> 0, focus |-> "projects",
               panic |-> FALSE]
    /\ fs = [p \in Paths |-> 1]
    /\ db = EmptyDB
    /\ dbLock = None
    /\ muW = None
    /\ muR = {}
    /\ pc = [p \in Procs |-> "idle"]
    /\ loc = [p \in Procs |-> Idle]
    /\ ret = NoRet
    /\ last = NoLast
    /\ ops = 0
    /\ faults = 0
    /\ pool = OpenPool

\* projects.Selected(): the name of the selected project, None while no
\* project is loaded.
SelectedProject(c) == IF c.loaded THEN UiProjects[c.project + 1] ELSE None

\* SessionList.SetSessions: the list is replaced and the cursor goes to 0.
SetSessions(c, list) == [c EXCEPT !.sessions = list, !.cursor = 0]

\* SessionList.Selected indexes s.sessions[s.cursor] whenever the list is
\* not empty: with a cursor past its end the program panics.
SelectedPanics(c) == c.sessions # <<>> /\ c.cursor >= Len(c.sessions)

\* Model.doFilterSessions: all sessions when the search is closed and
\* empty, otherwise those whose first prompt contains the query.
doFilterSessions(c) ==
    IF ~c.active /\ c.value = ""
    THEN SetSessions(c, c.allSessions)
    ELSE SetSessions(c, SelectSeq(c.allSessions,
                                  LAMBDA sid : PromptHas(sid, c.value)))

\* Model.doSelectProject: LoadSessions of the selected project.
doSelectProject(c) ==
    IF ~c.loaded THEN c
    ELSE doFilterSessions([c EXCEPT !.allSessions =
                                      ProjectSessions(SelectedProject(c))])

\* SearchOverlay.SetResults
SetResults(c, results) == [c EXCEPT !.results = results, !.resultIdx = 0]

\* store.SearchSessions(query, projectName): the sessions with a hit, of
\* one project or ("") of all.
SessionsWithHits(query, projectName) ==
    SelectSeq(Hits(query),
              LAMBDA sid : projectName = "" \/ ProjectOf(sid) = projectName)

\* Model.doSearch with a store: an empty query clears the results and
\* filters; LOCAL searches the selected session; PROJECT and GLOBAL set the
\* results and, when SearchSessions finds any session, the session list.
doSearch(c) ==
    IF c.value = "" THEN doFilterSessions(SetResults(c, <<>>))
    ELSE IF c.scope = "local"
    THEN IF SelectedPanics(c) THEN [c EXCEPT !.panic = TRUE]
         ELSE IF c.sessions = <<>> THEN c
         ELSE SetResults(c, SelectSeq(Hits(c.value),
                            LAMBDA sid : sid = c.sessions[c.cursor + 1]))
    ELSE LET name  == IF c.scope = "global" \/ ~c.loaded THEN ""
                      ELSE SelectedProject(c)
             found == SessionsWithHits(c.value, name)
             c1    == SetResults(c, found)
         IN IF found # <<>> THEN SetSessions(c1, found) ELSE c1

\* The index of sid in list counted from 0, Len(list) when it is not there.
RECURSIVE IndexOf(_, _)
IndexOf(list, sid) ==
    IF list = <<>> \/ Head(list) = sid THEN 0
    ELSE 1 + IndexOf(Tail(list), sid)

\* Model.navigateToResult: the cursor is set to the position of the
\* result's session in allSessions, and the detail pane takes the focus.
navigateToResult(c, sid) ==
    LET i == IndexOf(c.allSessions, sid)
    IN IF i < Len(c.allSessions)
       THEN [c EXCEPT !.cursor = i, !.focus = "detail"]
       ELSE c

\* The program runs: no panic has ended it.
Running == calc.stage = "ui" /\ ~calc.panic

\* tea.WindowSizeMsg for the first time, or watcher.RefreshMsg:
\* loadProjects sets the projects (the project cursor stays, being within
\* the list) and loads the sessions of the selected one.
LoadProjects ==
    /\ Running
    /\ calc' = doSelectProject([calc EXCEPT !.loaded = TRUE])
    /\ UNCHANGED storeVars

\* "/" in handleKey: SearchOverlay.Open.
KeySlash ==
    /\ Running /\ ~calc.active
    /\ calc' = [calc EXCEPT !.active = TRUE, !.value = "", !.results = <<>>,
                            !.resultIdx = 0]
    /\ UNCHANGED storeVars

\* A key that changes the text of the search input: doSearch follows.
KeyType ==
    /\ Running /\ calc.active
    /\ \E query \in UiQueries \ {calc.value} :
         calc' = doSearch([calc EXCEPT !.value = query])
    /\ UNCHANGED storeVars

\* "tab" in handleSearchKey: CycleScope, then doSearch.
KeyCycleScope ==
    /\ Running /\ calc.active
    /\ calc' = doSearch([calc EXCEPT !.scope =
                           IF @ = "project" THEN "global"
                           ELSE IF @ = "global" THEN "local" ELSE "project"])
    /\ UNCHANGED storeVars

\* "up" and "down" in handleSearchKey: ResultUp, ResultDown.
KeyResult ==
    /\ Running /\ calc.active
    /\ \/ calc.resultIdx > 0
          /\ calc' = [calc EXCEPT !.resultIdx = @ - 1]
       \/ calc.resultIdx < Len(calc.results) - 1
          /\ calc' = [calc EXCEPT !.resultIdx = @ + 1]
    /\ UNCHANGED storeVars

\* SearchOverlay.Close
Close(c) == [c EXCEPT !.active = FALSE, !.value = "", !.results = <<>>]

\* "enter" in handleSearchKey: navigateToResult for the selected result,
\* then Close; the session list is not filtered again.
KeyEnterSearch ==
    /\ Running /\ calc.active
    /\ calc' = Close(IF calc.resultIdx < Len(calc.results)
                     THEN navigateToResult(calc, calc.results[calc.resultIdx + 1])
                     ELSE calc)
    /\ UNCHANGED storeVars

\* "esc" in handleSearchKey: Close, then doFilterSessions.
KeyEscSearch ==
    /\ Running /\ calc.active
    /\ calc' = doFilterSessions(Close(calc))
    /\ UNCHANGED storeVars

\* "esc" in handleKey: doFilterSessions.
KeyEsc ==
    /\ Running /\ ~calc.active
    /\ calc' = doFilterSessions(calc)
    /\ UNCHANGED storeVars

\* "tab" in handleKey: the focus goes to the next pane.
KeyTab ==
    /\ Running /\ ~calc.active
    /\ calc' = [calc EXCEPT !.focus =
                  IF @ = "projects" THEN "sessions"
                  ELSE IF @ = "sessions" THEN "detail" ELSE "projects"]
    /\ UNCHANGED storeVars

\* "up" and "down" in handleKey, by the pane that has the focus: the
\* project cursor moves and its sessions are loaded, or SessionList.Up or
\* Down moves the session cursor.
KeyMove ==
    /\ Running /\ ~calc.active
    /\ \E dir \in {-1, 1} :
         IF calc.focus = "projects"
         THEN LET to == calc.project + dir
              IN calc' = doSelectProject(
                   [calc EXCEPT !.project =
                      IF calc.loaded /\ to \in 0..(Len(UiProjects) - 1)
                      THEN to ELSE @])
         ELSE IF calc.focus = "sessions"
         THEN IF dir = -1
              THEN calc' = [calc EXCEPT !.cursor = IF @ > 0 THEN @ - 1 ELSE @]
              ELSE calc' = [calc EXCEPT !.cursor =
                              IF @ < Len(calc.sessions) - 1 THEN @ + 1 ELSE @]
         ELSE calc' = calc
    /\ UNCHANGED storeVars

\* "enter" in handleKey: doSelectSession reads SessionList.Selected,
\* doSelectProject loads the project's sessions.
KeyEnter ==
    /\ Running /\ ~calc.active
    /\ IF calc.focus = "sessions"
       THEN IF SelectedPanics(calc)
            THEN calc' = [calc EXCEPT !.panic = TRUE]
            ELSE calc' = [calc EXCEPT !.focus = "detail"]
       ELSE IF calc.focus = "projects"
       THEN calc' = [doSelectProject(calc) EXCEPT !.focus = "sessions"]
       ELSE calc' = calc
    /\ UNCHANGED storeVars

NextUI ==
    \/ LoadProjects
    \/ KeySlash \/ KeyType \/ KeyCycleScope \/ KeyResult
    \/ KeyEnterSearch \/ KeyEscSearch
    \/ KeyEsc \/ KeyTab \/ KeyMove \/ KeyEnter

SpecUI == InitUI /\ [][NextUI]_vars

\* C39: after any sequence of UI operations the session list's cursor is a
\* valid index of the displayed list whenever that list is not empty, and
\* SessionList.Selected never indexes out of range.
C39_CursorInRange ==
    calc.stage = "ui" =>
        /\ calc.sessions # <<>> => calc.cursor \in 0..(Len(calc.sessions) - 1)
        /\ ~calc.panic

\* ------------------------------------------------------------------- C40
\* Another file than path is indexed under path's session identifier.
SessionTaken(d, path) ==
    \E f \in d.files : f.sid = SessionID(path) /\ f.path # path

\* At most one file is stored under every session identifier, and the
\* message rows of a session were all read from one file.
OneSourcePerSession(d) ==
    /\ \A f, g \in d.files : f.sid = g.sid => f.path = g.path
    /\ \A m, n \in d.messages : m.sid = n.sid => m.src = n.src

\* C40: all message rows sharing a session_id come from a single file: of
\* two files with the same base name at most one is indexed at any time, and
\* an indexFile call on the other fails and leaves the committed rows as
\* they were.
C40_OneFilePerSession ==
    /\ [](OneSourcePerSession(db))
    /\ [][\A p \in Clients :
            (IxReturns(p) /\ SessionTaken(db, loc[p].path))
               => (db' = db /\ ~last'.ok)]_vars

\* An indexFile call on y/a has just failed while x/a is indexed.
C40_Witness ==
    /\ last.path = <<"y", "a">> /\ ~last.ok /\ last.events # <<>>
    /\ SessionTaken(db, <<"y", "a">>)
    /\ db.messages # {}


====
